---- MODULE Spec2Model ----
(***************************************************************************)
(* Move resolution of the backtracking register allocator                  *)
(* (src/ion/moves.rs): apply_allocations_and_insert_moves followed by      *)
(* resolve_inserted_moves, as a state machine whose steps are the loop     *)
(* iterations and phases of the two functions.                             *)
(*                                                                         *)
(* Conventions.  Blocks, instructions, vregs and operand slots are         *)
(* numbered from 0 as in the source; a TLA+ sequence holding a Rust vector *)
(* is indexed from 1, so element k of the vector is s[k+1].  An            *)
(* Option<T> is <<>> (None) or <<x>> (Some(x)).                            *)
(***************************************************************************)
EXTENDS Integers, Sequences, FiniteSets, TLC

VARIABLES
    func,                 \* the Function and CFGInfo the allocator runs on
    vregs,                \* vregs[v]: is_pinned and the list of [range, index]
    ranges,               \* the live ranges: range, bundle, StartsAtDef flag, uses
    liveins,              \* liveins[b]: the vregs live at the entry of block b
    blockparam_ins,       \* <<to_vreg, to_block, from_block>>, sorted
    blockparam_outs,      \* <<from_vreg, from_block, to_block, to_vreg>>, sorted
    multi_fixed_reg_fixups,
    prog_move_srcs,       \* [vreg, inst, alloc]
    prog_move_dsts,       \* [vreg, inst, alloc]
    allocs,               \* allocs[inst][slot+1]
    pc,                   \* the phase the two functions are in
    vreg_i,               \* outer loop index of the scan
    idx,                  \* the four rolling indices of the scan
    half_moves,
    reuse_input_insts,
    blockparam_allocs,
    inserted_moves,
    i,                    \* index of the next inserted move / half move
    last_pos,
    redundant_moves,      \* RedundantMoveEliminator state
    extra_spillslot,      \* extra_spillslot[class]: Option<Allocation>
    num_spillslots,
    edits,
    failure,              \* <<>> or the panic / failed assertion that ended the run
    group,                \* the moves of the (pos, prio) group resolved last
    elided,               \* the resolved moves of that group that were elided
    mach_pre,             \* contents of every allocation before that group's edits
    mach                  \* contents of every allocation after that group's edits

inputs == <<func, vregs, ranges, liveins, blockparam_ins, blockparam_outs>>
scan_vars == <<multi_fixed_reg_fixups, prog_move_srcs, prog_move_dsts, allocs,
               vreg_i, idx, half_moves, reuse_input_insts, blockparam_allocs>>
resolve_vars == <<last_pos, redundant_moves, extra_spillslot, num_spillslots,
                  edits, group, elided, mach_pre, mach>>
vars == <<inputs, scan_vars, resolve_vars, inserted_moves, i, pc, failure>>

(***************************************************************************)
(* Option, program points, allocations, priorities                         *)
(***************************************************************************)
None == <<>>
Some(x) == <<x>>

Before(inst) == 2 * inst
After(inst) == 2 * inst + 1
inst_of(pos) == pos \div 2
is_before(pos) == pos % 2 = 0
next_inst_if_after(pos) == IF is_before(pos) THEN inst_of(pos) ELSE inst_of(pos) + 1

NoneAlloc == [kind |-> "none", class |-> "Int", index |-> 0]
RegAlloc(c, n) == [kind |-> "reg", class |-> c, index |-> n]
StackAlloc(c, n) == [kind |-> "stack", class |-> c, index |-> n]
is_reg(a) == a.kind = "reg"
is_stack(a) == a.kind = "stack"
is_none(a) == a.kind = "none"

RegClasses == <<"Int", "Float">>

InEdgeMoves == 0
BlockParam == 1
Regular == 2
PostRegular == 3
MultiFixedReg == 4
ReusedInput == 5
OutEdgeMoves == 6

\* env.scratch_by_class
scratch_by_class(c) == RegAlloc(c, 0)

(***************************************************************************)
(* The allocations of the model: per class the scratch register (index 0)  *)
(* and two more registers, the spill slots 0..2 handed out before move     *)
(* resolution, and the slots 3 and 4 that allocate_spillslot can still     *)
(* hand out as extra scratch slots.                                        *)
(***************************************************************************)
AllocOrder ==
    << RegAlloc("Int", 0), RegAlloc("Int", 1), RegAlloc("Int", 2),
       StackAlloc("Int", 0), StackAlloc("Int", 1),
       StackAlloc("Int", 3), StackAlloc("Int", 4),
       RegAlloc("Float", 0), RegAlloc("Float", 1), RegAlloc("Float", 2),
       StackAlloc("Float", 2), StackAlloc("Float", 3), StackAlloc("Float", 4) >>
AllAllocs == {AllocOrder[k] : k \in 1..Len(AllocOrder)}
FirstFreeSlot == 3

\* self.allocate_spillslot(regclass): the next unused slot, of that class
allocate_spillslot(c, n) == StackAlloc(c, n)

(***************************************************************************)
(* RedundantMoveEliminator: for every allocation, the allocation it is     *)
(* known to be a copy of and the vreg known to reside in it.               *)
(***************************************************************************)
RMNone == [copy |-> NoneAlloc, vreg |-> None]

\* RedundantMoveEliminator::default / clear
rm_clear == [a \in AllAllocs |-> RMNone]

\* clear_alloc: forget a and every copy of a
clear_alloc(rm, a) ==
    [x \in AllAllocs |->
        IF x = a \/ (rm[x].copy = a /\ ~is_none(a)) THEN RMNone ELSE rm[x]]

\* process_move: [elide, def_alloc, rm] for the move from -> to
process_move(rm, from, to, to_vreg) ==
    IF from = to
    THEN [elide |-> TRUE,
          def_alloc |-> IF to_vreg # None
                        THEN Some([alloc |-> to, vreg |-> to_vreg[1]]) ELSE None,
          rm |-> IF to_vreg # None
                 THEN [clear_alloc(rm, to) EXCEPT ![to] =
                          [copy |-> NoneAlloc, vreg |-> to_vreg]]
                 ELSE rm]
    ELSE LET elide == rm[to].copy = from \/ rm[from].copy = to
             dst_vreg == IF to_vreg # None THEN to_vreg ELSE rm[from].vreg
             rm1 == IF elide THEN rm ELSE clear_alloc(rm, to)
         IN  [elide |-> elide,
              def_alloc |-> IF to_vreg # None
                            THEN Some([alloc |-> to, vreg |-> to_vreg[1]]) ELSE None,
              rm |-> [rm1 EXCEPT ![to] = [copy |-> from, vreg |-> dst_vreg]]]

(***************************************************************************)
(* ParallelMoves::resolve.  A parallel move is a set of [from, to,         *)
(* to_vreg] with pairwise different destinations; every sequence a         *)
(* cycle-breaking scheduler can return for it is in Schedules: a move is   *)
(* emitted once no other pending move still reads its destination, and a   *)
(* move on a cycle may be unblocked by saving its source to the scratch.   *)
(***************************************************************************)
PMove(from, to, to_vreg) == [from |-> from, to |-> to, to_vreg |-> to_vreg]

RECURSIVE OnCycleFrom(_, _, _, _)
\* does following the writers back from allocation a reach move m within n steps
OnCycleFrom(pending, m, a, n) ==
    IF n = 0 THEN FALSE
    ELSE \E w \in pending :
            /\ w.to = a
            /\ (w = m \/ OnCycleFrom(pending, m, w.from, n - 1))

OnCycle(pending, m) == OnCycleFrom(pending, m, m.from, Cardinality(pending))

RECURSIVE Schedules(_, _)
Schedules(pending, scratch) ==
    IF pending = {} THEN {<<>>}
    ELSE LET ready == {m \in pending : \A n \in pending \ {m} : n.from # m.to}
             cyc == {m \in pending : /\ \A n \in pending : n.from # scratch
                                      /\ OnCycle(pending, m)}
         IN  UNION ( {{<<m>> \o t : t \in Schedules(pending \ {m}, scratch)}
                         : m \in ready}
                     \cup
                     {{<<PMove(m.from, scratch, None)>> \o t :
                          t \in Schedules((pending \ {m})
                                            \cup {PMove(scratch, m.to, m.to_vreg)},
                                          scratch)}
                         : m \in cyc} )

\* resolve(): a vector of zero or one move is returned as it is
resolve(moves, scratch) ==
    IF Len(moves) <= 1 THEN {moves}
    ELSE Schedules({moves[k] : k \in 1..Len(moves)}, scratch)

(***************************************************************************)
(* Function and CFGInfo accessors                                          *)
(***************************************************************************)
insn_block(inst) == func.insn_block[inst]
block_entry(b) == Before(func.block_insns[b][1])
block_exit(b) == After(func.block_insns[b][2])
get_alloc(al, inst, slot) == al[inst][slot + 1]
set_alloc(al, inst, slot, a) == [al EXCEPT ![inst][slot + 1] = a]

\* the allocations instruction inst writes: its Def and Mod operands, its clobbers
RECURSIVE SetToSeq(_)
SetToSeq(S) == IF S = {} THEN <<>>
               ELSE LET x == CHOOSE y \in S : TRUE IN <<x>> \o SetToSeq(S \ {x})

inst_writes(al, inst) ==
    LET ops == func.inst_operands[inst]
        defs == SelectSeq([k \in 1..Len(ops) |-> [op |-> ops[k], slot |-> k - 1]],
                          LAMBDA e : e.op.kind \in {"Def", "Mod"})
    IN  [k \in 1..Len(defs) |-> get_alloc(al, inst, defs[k].slot)]
        \o SetToSeq(func.inst_clobbers[inst])

RECURSIVE range_writes(_, _, _)
range_writes(al, start_inst, end_inst) ==
    IF start_inst >= end_inst THEN <<>>
    ELSE inst_writes(al, start_inst) \o range_writes(al, start_inst + 1, end_inst)

RECURSIVE clear_allocs(_, _, _)
clear_allocs(rm, ws, k) ==
    IF k > Len(ws) THEN rm ELSE clear_allocs(clear_alloc(rm, ws[k]), ws, k + 1)

\* side effects that take no notice of safepoints
side_effects_ignore_safepoints(rm, al, from, to) ==
    IF insn_block(inst_of(from)) # insn_block(inst_of(to)) THEN rm_clear
    ELSE clear_allocs(rm,
                      range_writes(al, next_inst_if_after(from), next_inst_if_after(to)),
                      1)

redundant_move_process_side_effects(rm, al, from, to) ==
    IF insn_block(inst_of(from)) # insn_block(inst_of(to)) THEN rm_clear
    ELSE IF \E k \in inst_of(from)..inst_of(to) : k \in func.is_safepoint
    THEN rm_clear
    ELSE clear_allocs(rm,
                      range_writes(al, next_inst_if_after(from), next_inst_if_after(to)),
                      1)

(***************************************************************************)
(* The machine the edits run on: a value per allocation.  Values are       *)
(* renamed to the position of the first allocation holding them, so that   *)
(* two machine states are equal exactly when the same allocations hold     *)
(* equal values.                                                           *)
(***************************************************************************)
NAllocs == Len(AllocOrder)
Min(S) == CHOOSE x \in S : \A y \in S : x <= y
Normalize(m) ==
    [a \in AllAllocs |-> Min({k \in 1..NAllocs : m[AllocOrder[k]] = m[a]})]
MachInit == [a \in AllAllocs |-> Min({k \in 1..NAllocs : AllocOrder[k] = a})]

RECURSIVE mach_writes(_, _, _)
\* the k-th write of ws stores a value nothing else holds
mach_writes(m, ws, k) ==
    IF k > Len(ws) THEN m
    ELSE mach_writes(IF ws[k] \in AllAllocs
                     THEN [m EXCEPT ![ws[k]] = NAllocs + k] ELSE m, ws, k + 1)

\* the instructions executed between two program points of one block; across
\* a block boundary nothing is known about the contents
mach_side_effects(m, al, from, to) ==
    IF insn_block(inst_of(from)) # insn_block(inst_of(to)) THEN MachInit
    ELSE Normalize(mach_writes(m,
             range_writes(al, next_inst_if_after(from), next_inst_if_after(to)), 1))

RECURSIVE mach_exec(_, _, _)
\* run edits es[k..] one after another
mach_exec(m, es, k) ==
    IF k > Len(es) THEN m
    ELSE mach_exec(IF es[k].kind = "Move" THEN [m EXCEPT ![es[k].to] = m[es[k].from]]
                   ELSE m, es, k + 1)

(***************************************************************************)
(* Edits.  A DefAlloc { alloc, vreg } is held as to = alloc, to_vreg =     *)
(* Some(vreg).  seq is the number of the push that added the edit.         *)
(***************************************************************************)
MoveEdit(pos, prio, from, to, to_vreg) ==
    [pos |-> pos, prio |-> prio, kind |-> "Move",
     from |-> from, to |-> to, to_vreg |-> to_vreg]
DefAllocEdit(pos, prio, alloc, vreg) ==
    [pos |-> pos, prio |-> prio, kind |-> "DefAlloc",
     from |-> NoneAlloc, to |-> alloc, to_vreg |-> Some(vreg)]
Stamp(e, n) ==
    [pos |-> e.pos, prio |-> e.prio, kind |-> e.kind, from |-> e.from,
     to |-> e.to, to_vreg |-> e.to_vreg, seq |-> n]
Unstamp(e) ==
    [pos |-> e.pos, prio |-> e.prio, kind |-> e.kind, from |-> e.from,
     to |-> e.to, to_vreg |-> e.to_vreg]

class_mismatch(from, to) == is_reg(from) /\ is_reg(to) /\ from.class # to.class

\* add_edit: a move to itself that names no vreg is dropped
add_edit(es, e) ==
    IF e.kind = "Move" /\ e.from = e.to /\ e.to_vreg = None THEN es
    ELSE Append(es, Stamp(e, Len(es) + 1))

RECURSIVE add_edits(_, _, _)
add_edits(es, new, k) ==
    IF k > Len(new) THEN es ELSE add_edits(add_edit(es, new[k]), new, k + 1)

\* a lowering that does not bring the scratch register back
lower_move_unrestored(pos, prio, mv, elide, scratch_used_yet, scratch, extra_slot) ==
    IF elide THEN <<>>
    ELSE IF is_stack(mv.from) /\ is_stack(mv.to)
    THEN IF ~scratch_used_yet
         THEN << MoveEdit(pos, prio, mv.from, scratch, mv.to_vreg),
                 MoveEdit(pos, prio, scratch, mv.to, mv.to_vreg) >>
         ELSE IF extra_slot = None THEN <<>>
         ELSE << MoveEdit(pos, prio, scratch, extra_slot[1], None),
                 MoveEdit(pos, prio, mv.from, scratch, mv.to_vreg),
                 MoveEdit(pos, prio, scratch, mv.to, mv.to_vreg) >>
    ELSE << MoveEdit(pos, prio, mv.from, mv.to, mv.to_vreg) >>

\* the edits one resolved move src -> dst turns into (lines 988-1072)
lower_move(pos, prio, mv, elide, scratch_used_yet, scratch, extra_slot) ==
    IF elide THEN <<>>
    ELSE IF is_stack(mv.from) /\ is_stack(mv.to)
    THEN IF ~scratch_used_yet
         THEN << MoveEdit(pos, prio, mv.from, scratch, mv.to_vreg),
                 MoveEdit(pos, prio, scratch, mv.to, mv.to_vreg) >>
         ELSE IF extra_slot = None THEN <<>>
         ELSE << MoveEdit(pos, prio, scratch, extra_slot[1], None),
                 MoveEdit(pos, prio, mv.from, scratch, mv.to_vreg),
                 MoveEdit(pos, prio, scratch, mv.to, mv.to_vreg),
                 MoveEdit(pos, prio, extra_slot[1], scratch, None) >>
    ELSE << MoveEdit(pos, prio, mv.from, mv.to, mv.to_vreg) >>

\* a DefAlloc for the moves that were not elided only
def_alloc_edits_unless_elided(pos, prio, action) ==
    IF action.def_alloc = None \/ action.elide THEN <<>>
    ELSE << DefAllocEdit(pos, prio, action.def_alloc[1].alloc,
                         action.def_alloc[1].vreg) >>

def_alloc_edits(pos, prio, action) ==
    IF action.def_alloc = None THEN <<>>
    ELSE << DefAllocEdit(pos, prio, action.def_alloc[1].alloc,
                         action.def_alloc[1].vreg) >>

RECURSIVE emit_resolved(_, _, _, _, _, _, _)
\* the loop over the resolved moves of one class; acc = [rm, edits, used, fail,
\* elided]; elided notes every elided move with the number of edits before it
emit_resolved(acc, resolved, k, pos, prio, scratch, extra_slot) ==
    IF k > Len(resolved) \/ acc.fail # "" THEN acc
    ELSE LET mv == resolved[k]
             action == process_move(acc.rm, mv.from, mv.to, mv.to_vreg)
             used == acc.used \/ (~action.elide /\ mv.to = scratch)
             new == lower_move(pos, prio, mv, action.elide, used, scratch, extra_slot)
             bad == /\ ~action.elide /\ is_stack(mv.from) /\ is_stack(mv.to)
                    /\ used /\ extra_slot = None
             mism == \E n \in 1..Len(new) : class_mismatch(new[n].from, new[n].to)
         IN  emit_resolved(
                 [rm |-> action.rm,
                  edits |-> add_edits(acc.edits,
                                      new \o def_alloc_edits(pos, prio, action), 1),
                  used |-> used,
                  elided |-> IF action.elide
                             THEN Append(acc.elided,
                                         [from |-> mv.from, to |-> mv.to,
                                          at |-> Len(acc.edits)])
                             ELSE acc.elided,
                  fail |-> IF bad THEN "assert extra_slot.is_some()"
                           ELSE IF mism THEN "assert_eq class in add_edit"
                           ELSE ""],
                 resolved, k + 1, pos, prio, scratch, extra_slot)

\* one class of one group, with a new extra slot for every group that needs one
resolve_class_new_slot(st, regclass, resolved, pos, prio) ==
    LET scratch == scratch_by_class(regclass)
        scratch_used == \E k \in 1..Len(resolved) :
                            resolved[k].from = scratch \/ resolved[k].to = scratch
        stack_stack_move == \E k \in 1..Len(resolved) :
                            is_stack(resolved[k].from) /\ is_stack(resolved[k].to)
        need == scratch_used /\ stack_stack_move
        extra == IF need
                 THEN [st.extra EXCEPT
                          ![regclass] = Some(allocate_spillslot(regclass, st.nslots))]
                 ELSE st.extra
        extra_slot == IF need THEN extra[regclass] ELSE None
        acc == emit_resolved([rm |-> st.rm, edits |-> st.edits, used |-> FALSE,
                              elided |-> st.elided, fail |-> st.fail],
                             resolved, 1, pos, prio, scratch, extra_slot)
    IN  [rm |-> acc.rm, edits |-> acc.edits, extra |-> extra, elided |-> acc.elided,
         nslots |-> IF need THEN st.nslots + 1 ELSE st.nslots, fail |-> acc.fail]

\* one class of one group, handing the extra slot to the lowering only in the
\* group that allocates it
resolve_class_slot_once(st, regclass, resolved, pos, prio) ==
    LET scratch == scratch_by_class(regclass)
        scratch_used == \E k \in 1..Len(resolved) :
                            resolved[k].from = scratch \/ resolved[k].to = scratch
        stack_stack_move == \E k \in 1..Len(resolved) :
                            is_stack(resolved[k].from) /\ is_stack(resolved[k].to)
        need == scratch_used /\ stack_stack_move
        fresh == need /\ st.extra[regclass] = None
        extra == IF fresh
                 THEN [st.extra EXCEPT
                          ![regclass] = Some(allocate_spillslot(regclass, st.nslots))]
                 ELSE st.extra
        extra_slot == IF fresh THEN extra[regclass] ELSE None
        acc == emit_resolved([rm |-> st.rm, edits |-> st.edits, used |-> FALSE,
                              elided |-> st.elided, fail |-> st.fail],
                             resolved, 1, pos, prio, scratch, extra_slot)
    IN  [rm |-> acc.rm, edits |-> acc.edits, extra |-> extra, elided |-> acc.elided,
         nslots |-> IF fresh THEN st.nslots + 1 ELSE st.nslots, fail |-> acc.fail]

\* one class of one group (lines 944-1074); st = [rm, edits, extra, nslots, fail,
\* elided]
resolve_class(st, regclass, resolved, pos, prio) ==
    LET scratch == scratch_by_class(regclass)
        scratch_used == \E k \in 1..Len(resolved) :
                            resolved[k].from = scratch \/ resolved[k].to = scratch
        stack_stack_move == \E k \in 1..Len(resolved) :
                            is_stack(resolved[k].from) /\ is_stack(resolved[k].to)
        need == scratch_used /\ stack_stack_move
        fresh == need /\ st.extra[regclass] = None
        extra == IF fresh
                 THEN [st.extra EXCEPT
                          ![regclass] = Some(allocate_spillslot(regclass, st.nslots))]
                 ELSE st.extra
        extra_slot == IF need THEN extra[regclass] ELSE None
        acc == emit_resolved([rm |-> st.rm, edits |-> st.edits, used |-> FALSE,
                              elided |-> st.elided, fail |-> st.fail],
                             resolved, 1, pos, prio, scratch, extra_slot)
    IN  [rm |-> acc.rm, edits |-> acc.edits, extra |-> extra, elided |-> acc.elided,
         nslots |-> IF fresh THEN st.nslots + 1 ELSE st.nslots, fail |-> acc.fail]

RECURSIVE emit_self_moves(_, _, _, _, _)
\* lines 1076-1091
emit_self_moves(st, self_moves, k, pos, prio) ==
    IF k > Len(self_moves) \/ st.fail # "" THEN st
    ELSE LET m == self_moves[k]
             action == process_move(st.rm, m.from_alloc, m.to_alloc, m.to_vreg)
         IN  emit_self_moves(
                 [st EXCEPT !.rm = action.rm,
                            !.edits = add_edits(st.edits,
                                                def_alloc_edits(pos, prio, action), 1),
                            !.fail = IF action.elide THEN "" ELSE "assert action.elide"],
                 self_moves, k + 1, pos, prio)

InsertedMove(pos, prio, from_alloc, to_alloc, to_vreg) ==
    [pos |-> pos, prio |-> prio, from_alloc |-> from_alloc,
     to_alloc |-> to_alloc, to_vreg |-> to_vreg]

to_pmoves(moves) ==
    [k \in 1..Len(moves) |->
        PMove(moves[k].from_alloc, moves[k].to_alloc, moves[k].to_vreg)]

\* first index after the group of equal (pos, prio) that starts at index n
RECURSIVE group_end(_, _)
group_end(ms, n) ==
    IF n < Len(ms) /\ ms[n + 1].pos = ms[n].pos /\ ms[n + 1].prio = ms[n].prio
    THEN group_end(ms, n + 1) ELSE n + 1

(***************************************************************************)
(* Sorting.  Keys are tuples of integers compared lexicographically.       *)
(* sort_unstable_by_key leaves elements of equal key in an order the       *)
(* caller cannot rely on: every key-sorted permutation is a result.        *)
(* sort_by_key is stable.                                                  *)
(***************************************************************************)
RECURSIVE lex_lt_from(_, _, _)
lex_lt_from(a, b, k) ==
    IF k > Len(a) THEN FALSE
    ELSE IF a[k] # b[k] THEN a[k] < b[k] ELSE lex_lt_from(a, b, k + 1)
lex_lt(a, b) == lex_lt_from(a, b, 1)
lex_le(a, b) == ~lex_lt(b, a)

RECURSIVE sorted_perms(_, _, _)
\* ks[k] is the key of s[k]; rem the indices not yet placed
sorted_perms(s, ks, rem) ==
    IF rem = {} THEN {<<>>}
    ELSE LET least == {k \in rem : \A j \in rem : lex_le(ks[k], ks[j])}
         IN  UNION {{<<s[k]>> \o t : t \in sorted_perms(s, ks, rem \ {k})}
                       : k \in least}

\* ks[k] is the key of s[k]
sort_unstable_by_key(s, ks) == sorted_perms(s, ks, 1..Len(s))

\* insertion before the first element whose key is not smaller
stable_insert_before_equal(acc, e) ==
    LET n == Cardinality({k \in 1..Len(acc) : lex_lt(acc[k].key, e.key)})
    IN  SubSeq(acc, 1, n) \o <<e>> \o SubSeq(acc, n + 1, Len(acc))

\* insertion after the last element whose key is not greater; ks holds the keys
stable_insert(acc, e) ==
    LET n == Cardinality({k \in 1..Len(acc) : lex_le(acc[k].key, e.key)})
    IN  SubSeq(acc, 1, n) \o <<e>> \o SubSeq(acc, n + 1, Len(acc))

RECURSIVE stable_sort_from(_, _, _)
stable_sort_from(acc, s, k) ==
    IF k > Len(s) THEN acc ELSE stable_sort_from(stable_insert(acc, s[k]), s, k + 1)

\* ks[k] is the key of s[k]
sort_by_key(s, ks) ==
    LET keyed == [k \in 1..Len(s) |-> [key |-> ks[k], elem |-> s[k]]]
        sorted == stable_sort_from(<<>>, keyed, 1)
    IN  [k \in 1..Len(s) |-> sorted[k].elem]

\* the program point alone
pos_only(x) == <<x.pos>>

pos_prio(x) == <<x.pos, x.prio>>
block_idx(x) == <<x.block, x.idx>>

(***************************************************************************)
(* apply_allocations_and_insert_moves: what the scan reads                 *)
(***************************************************************************)
contains_point(range, p) == range.from <= p /\ p < range.to

\* lines 30-37
is_start_of_block(pos) == pos = block_entry(insn_block(inst_of(pos)))
is_end_of_block(pos) == pos = block_exit(insn_block(inst_of(pos)))

\* the bundle's allocation, whether it has one or not
get_alloc_for_range_bundle_only(r) == ranges[r + 1].bundle.allocation

\* lines 79-95: the bundle's allocation, else its spill set's slot.  A range
\* holds its bundle as [allocation, spillslot]: the allocation of
\* bundles[bundle] and that of spillslots[spillsets[bundle.spillset].slot].
get_alloc_for_range(r) ==
    LET bundledata == ranges[r + 1].bundle
    IN  IF bundledata.allocation # NoneAlloc THEN bundledata.allocation
        ELSE bundledata.spillslot

\* self.is_live_in(block, vreg): the liveins bit set
is_live_in(block, vreg) == vreg \in liveins[block]

\* lines 39-67; st carries the inserted moves (im) and the failed assertion
insert_move(st, pos, prio, from_alloc, to_alloc, to_vreg) ==
    IF class_mismatch(from_alloc, to_alloc)
    THEN [st EXCEPT !.fail = IF @ = "" THEN "assert_eq class in insert_move" ELSE @]
    ELSE [st EXCEPT !.im = Append(@, InsertedMove(pos, prio, from_alloc, to_alloc,
                                                   to_vreg))]

(***************************************************************************)
(* Half-moves (lines 125-167).  The 64-bit key is held as its three        *)
(* fields, most significant first: from_block (bits 43..63), to_block      *)
(* (bits 22..42) and to_vreg << 1 | kind (bits 0..21); comparing the       *)
(* triples lexicographically is comparing the keys.                        *)
(***************************************************************************)
Source == 0
Dest == 1
FieldLimit == 2 ^ 21

half_move_key_ok(from_block, to_block, to_vreg) ==
    from_block < FieldLimit /\ to_block < FieldLimit /\ to_vreg < FieldLimit

\* the two block fields in each other's place
half_move_key_swapped(from_block, to_block, to_vreg, kind) ==
    <<to_block, from_block, 2 * to_vreg + kind>>

half_move_key(from_block, to_block, to_vreg, kind) ==
    <<from_block, to_block, 2 * to_vreg + kind>>

HalfMove(key, alloc) == [key |-> key, alloc |-> alloc]
hm_from_block(h) == h.key[1] % FieldLimit
hm_to_block(h) == h.key[2] % FieldLimit
hm_to_vreg(h) == (h.key[3] \div 2) % FieldLimit
hm_kind(h) == IF h.key[3] % 2 = 1 THEN Dest ELSE Source
hm_key(h) == h.key

\* lines 310-313, 340-348, 398-406, 456-459: push one half-move
push_half_move(st, from_block, to_block, to_vreg, kind, alloc) ==
    IF ~half_move_key_ok(from_block, to_block, to_vreg)
    THEN [st EXCEPT !.fail = IF @ = "" THEN "assert index < 1 << 21" ELSE @]
    ELSE [st EXCEPT !.hm = Append(@, HalfMove(half_move_key(from_block, to_block,
                                                            to_vreg, kind), alloc))]

(***************************************************************************)
(* The scan over the ranges of one vreg (lines 176-584).  st holds what    *)
(* the scan writes: im (inserted_moves), hm (half_moves), bpa              *)
(* (blockparam_allocs), al (allocs), rii (reuse_input_insts), srcs and     *)
(* dsts (prog_move_srcs, prog_move_dsts), ix (the four rolling indices)    *)
(* and fail.                                                               *)
(***************************************************************************)
SLOT_NONE == 255

\* no move between two ranges of the same allocation
abutment_move_if_differ(st, vreg, range, alloc, starts_at_def, prev) ==
    IF prev = None THEN st
    ELSE LET prev_alloc == get_alloc_for_range(prev[1])
             prev_range == ranges[prev[1] + 1].range
         IN  IF /\ prev_range.to = range.from
                /\ ~is_start_of_block(range.from)
                /\ ~starts_at_def
                /\ prev_alloc # alloc
             THEN insert_move(st, range.from, Regular, prev_alloc, alloc, Some(vreg))
             ELSE st

\* the move from the range to the range right before it
abutment_move_reversed(st, vreg, range, alloc, starts_at_def, prev) ==
    IF prev = None THEN st
    ELSE LET prev_alloc == get_alloc_for_range(prev[1])
             prev_range == ranges[prev[1] + 1].range
         IN  IF /\ prev_range.to = range.from
                /\ ~is_start_of_block(range.from)
                /\ ~starts_at_def
             THEN insert_move(st, range.from, Regular, alloc, prev_alloc, Some(vreg))
             ELSE st

\* lines 252-280: the move between a range and the range right before it
abutment_move(st, vreg, range, alloc, starts_at_def, prev) ==
    IF prev = None THEN st
    ELSE LET prev_alloc == get_alloc_for_range(prev[1])
             prev_range == ranges[prev[1] + 1].range
         IN  IF /\ prev_range.to = range.from
                /\ ~is_start_of_block(range.from)
                /\ ~starts_at_def
             THEN IF ~is_before(range.from)
                  THEN [st EXCEPT !.fail = IF @ = "" THEN "assert_eq range.from.pos() Before"
                                           ELSE @]
                  ELSE insert_move(st, range.from, Regular, prev_alloc, alloc, Some(vreg))
             ELSE st

RECURSIVE scan_blockparam_outs(_, _, _, _)
\* lines 326-366
scan_blockparam_outs(st, vreg, block, alloc) ==
    IF st.ix.bp_out >= Len(blockparam_outs) THEN st
    ELSE LET e == blockparam_outs[st.ix.bp_out + 1]
             st1 == [st EXCEPT !.ix.bp_out = @ + 1]
         IN  IF lex_lt(<<vreg, block>>, <<e.from_vreg, e.from_block>>) THEN st
             ELSE IF <<e.from_vreg, e.from_block>> = <<vreg, block>>
             THEN scan_blockparam_outs(
                      push_half_move(st1, e.from_block, e.to_block, e.to_vreg,
                                     Source, alloc),
                      vreg, block, alloc)
             ELSE scan_blockparam_outs(st1, vreg, block, alloc)

RECURSIVE source_half_moves(_, _, _, _, _, _)
\* lines 298-315: the successors of block, from the k-th on
source_half_moves(st, vreg, range, alloc, block, k) ==
    IF k > Len(func.block_succs[block]) THEN st
    ELSE LET succ == func.block_succs[block][k]
         IN  source_half_moves(
                 IF ~contains_point(range, block_entry(succ)) /\ is_live_in(succ, vreg)
                 THEN push_half_move(st, block, succ, vreg, Source, alloc)
                 ELSE st,
                 vreg, range, alloc, block, k + 1)

RECURSIVE scan_block_ends(_, _, _, _, _)
\* lines 292-369: the blocks whose end the range covers, from block on
scan_block_ends(st, vreg, range, alloc, block) ==
    IF block >= func.num_blocks \/ range.to < block_exit(block) + 1 THEN st
    ELSE scan_block_ends(
             scan_blockparam_outs(source_half_moves(st, vreg, range, alloc, block, 1),
                                  vreg, block, alloc),
             vreg, range, alloc, block + 1)

\* one entry of blockparam_ins only, with no loop over the entries
scan_blockparam_ins_once(st, vreg, block, alloc) ==
    IF st.ix.bp_in >= Len(blockparam_ins) THEN st
    ELSE LET e == blockparam_ins[st.ix.bp_in + 1]
             st1 == [st EXCEPT !.ix.bp_in = @ + 1]
         IN  IF lex_lt(<<vreg, block>>, <<e.to_vreg, e.to_block>>) THEN st
             ELSE IF <<e.to_vreg, e.to_block>> = <<vreg, block>>
             THEN push_half_move(st1, e.from_block, e.to_block, e.to_vreg, Dest, alloc)
             ELSE st1

RECURSIVE scan_blockparam_ins(_, _, _, _)
\* lines 391-431
scan_blockparam_ins(st, vreg, block, alloc) ==
    IF st.ix.bp_in >= Len(blockparam_ins) THEN st
    ELSE LET e == blockparam_ins[st.ix.bp_in + 1]
             st1 == [st EXCEPT !.ix.bp_in = @ + 1]
         IN  IF lex_lt(<<vreg, block>>, <<e.to_vreg, e.to_block>>) THEN st
             ELSE IF <<e.to_vreg, e.to_block>> = <<vreg, block>>
             THEN scan_blockparam_ins(
                      push_half_move(st1, e.from_block, e.to_block, e.to_vreg,
                                     Dest, alloc),
                      vreg, block, alloc)
             ELSE scan_blockparam_ins(st1, vreg, block, alloc)

RECURSIVE dest_half_moves(_, _, _, _, _, _)
\* lines 446-460: the predecessors of block, from the k-th on
dest_half_moves(st, vreg, range, alloc, block, k) ==
    IF k > Len(func.block_preds[block]) THEN st
    ELSE LET pred == func.block_preds[block][k]
         IN  dest_half_moves(
                 IF ~contains_point(range, block_exit(pred))
                 THEN push_half_move(st, pred, block, vreg, Dest, alloc)
                 ELSE st,
                 vreg, range, alloc, block, k + 1)

RECURSIVE scan_block_starts(_, _, _, _, _)
\* lines 379-463: the blocks whose start the range covers, from block on
scan_block_starts(st, vreg, range, alloc, block) ==
    IF block >= func.num_blocks \/ block_entry(block) >= range.to THEN st
    ELSE LET st1 == scan_blockparam_ins(st, vreg, block, alloc)
         IN  scan_block_starts(
                 IF ~is_live_in(block, vreg) THEN st1
                 ELSE dest_half_moves(st1, vreg, range, alloc, block, 1),
                 vreg, range, alloc, block + 1)

\* lines 375-378
first_block_start(range) ==
    LET block == insn_block(inst_of(range.from))
    IN  IF block_entry(block) < range.from THEN block + 1 ELSE block

\* lines 465-478
push_blockparam_alloc(st, vreg, range, alloc) ==
    LET bp == func.vreg_def_blockparam[vreg]
    IN  IF bp # None /\ contains_point(range, block_entry(bp[1].block))
        THEN [st EXCEPT !.bpa = Append(@, [block |-> bp[1].block, idx |-> bp[1].idx,
                                           vreg |-> vreg, alloc |-> alloc])]
        ELSE st

RECURSIVE apply_uses(_, _, _, _)
\* lines 481-497
apply_uses(st, uses, alloc, k) ==
    IF k > Len(uses) THEN st
    ELSE LET usedata == uses[k]
             inst == inst_of(usedata.pos)
             st1 == IF usedata.slot # SLOT_NONE
                    THEN [st EXCEPT !.al = set_alloc(@, inst, usedata.slot, alloc)]
                    ELSE st
             st2 == IF usedata.operand.constraint.tag = "Reuse"
                    THEN [st1 EXCEPT !.rii = Append(@, inst)]
                    ELSE st1
         IN  apply_uses(st2, uses, alloc, k + 1)

RECURSIVE skip_prog_moves(_, _, _)
\* lines 520-525, 563-568: the index of the first entry not below bound
skip_prog_moves(pm, n, bound) ==
    IF n < Len(pm) /\ lex_lt(<<pm[n + 1].vreg, pm[n + 1].inst>>, bound)
    THEN skip_prog_moves(pm, n + 1, bound) ELSE n

RECURSIVE fill_prog_moves(_, _, _, _)
\* lines 526-537, 569-580: [pm, n] after the entries below bound got alloc
fill_prog_moves(pm, n, bound, alloc) ==
    IF n < Len(pm) /\ lex_lt(<<pm[n + 1].vreg, pm[n + 1].inst>>, bound)
    THEN fill_prog_moves([pm EXCEPT ![n + 1].alloc = alloc], n + 1, bound, alloc)
    ELSE [pm |-> pm, n |-> n]

\* lines 499-537
scan_prog_move_srcs(st, vreg, range, alloc) ==
    LET move_src_start == <<vreg, inst_of(range.from)>>
        move_src_end == <<vreg, inst_of(range.to)>>
        r == fill_prog_moves(st.srcs, skip_prog_moves(st.srcs, st.ix.pm_src,
                                                      move_src_start),
                             move_src_end, alloc)
    IN  [st EXCEPT !.srcs = r.pm, !.ix.pm_src = r.n]

\* the bounds of the destinations computed as those of the sources
scan_prog_move_dsts_as_srcs(st, vreg, range, alloc) ==
    LET move_dst_start == <<vreg, inst_of(range.from)>>
        move_dst_end == <<vreg, inst_of(range.to)>>
        r == fill_prog_moves(st.dsts, skip_prog_moves(st.dsts, st.ix.pm_dst,
                                                      move_dst_start),
                             move_dst_end, alloc)
    IN  [st EXCEPT !.dsts = r.pm, !.ix.pm_dst = r.n]

\* lines 539-580
scan_prog_move_dsts(st, vreg, range, alloc) ==
    LET move_dst_start == <<vreg, next_inst_if_after(range.from)>>
        move_dst_end == <<vreg, next_inst_if_after(range.to)>>
        r == fill_prog_moves(st.dsts, skip_prog_moves(st.dsts, st.ix.pm_dst,
                                                      move_dst_start),
                             move_dst_end, alloc)
    IN  [st EXCEPT !.dsts = r.pm, !.ix.pm_dst = r.n]

\* lines 190-583: one range of vreg
scan_range(st, vreg, pinned_alloc, entry, prev) ==
    LET alloc == IF pinned_alloc # None THEN pinned_alloc[1]
                 ELSE get_alloc_for_range(entry.index)
        range == entry.range
        rd == ranges[entry.index + 1]
        st1 == IF pinned_alloc = None
               THEN abutment_move(st, vreg, range, alloc, rd.starts_at_def, prev)
               ELSE st
        st2 == IF pinned_alloc = None
               THEN push_blockparam_alloc(
                        scan_block_starts(
                            scan_block_ends(st1, vreg, range, alloc,
                                            insn_block(inst_of(range.from))),
                            vreg, range, alloc, first_block_start(range)),
                        vreg, range, alloc)
               ELSE st1
        st3 == apply_uses(st2, rd.uses, alloc, 1)
    IN  scan_prog_move_dsts(scan_prog_move_srcs(st3, vreg, range, alloc),
                            vreg, range, alloc)

RECURSIVE scan_ranges(_, _, _, _, _)
\* lines 189-583: the ranges of vreg from the k-th on
scan_ranges(st, vreg, pinned_alloc, k, prev) ==
    IF k > Len(vregs[vreg + 1].ranges) THEN st
    ELSE LET entry == vregs[vreg + 1].ranges[k]
         IN  scan_ranges(scan_range(st, vreg, pinned_alloc, entry, prev),
                         vreg, pinned_alloc, k + 1, Some(entry.index))

(***************************************************************************)
(* apply_allocations_and_insert_moves: its phases                          *)
(***************************************************************************)
\* failure holds nothing, or the message of the panic or failed assertion
\* (followed by the two blocks a critical edge panic names)
NoFailure == <<>>
panic_of(fail) == IF fail = "" THEN NoFailure ELSE <<fail>>

refresh_ranges(entries) ==
    [k \in 1..Len(entries) |->
        [entries[k] EXCEPT !.range = ranges[entries[k].index + 1].range]]
range_from(entry) == <<entry.range.from>>

RECURSIVE sorted_vregs(_)
\* lines 104-109 for the first k vregs: every list the unstable sort can leave
sorted_vregs(k) ==
    IF k = 0 THEN {<<>>}
    ELSE {Append(done, [vregs[k] EXCEPT !.ranges = rs]) :
             done \in sorted_vregs(k - 1),
             rs \in LET entries == refresh_ranges(vregs[k].ranges)
                    IN  sort_unstable_by_key(
                            entries,
                            [n \in 1..Len(entries) |-> range_from(entries[n])])}

\* lines 104-109, 169-175
SortRanges ==
    /\ pc = "start"
    /\ vregs' \in sorted_vregs(Len(vregs))
    /\ vreg_i' = 0
    /\ idx' = [bp_in |-> 0, bp_out |-> 0, pm_src |-> 0, pm_dst |-> 0]
    /\ half_moves' = <<>>
    /\ reuse_input_insts' = <<>>
    /\ pc' = "scan"
    /\ UNCHANGED <<func, ranges, liveins, blockparam_ins, blockparam_outs,
                   multi_fixed_reg_fixups, prog_move_srcs, prog_move_dsts, allocs,
                   blockparam_allocs, resolve_vars, inserted_moves, i, failure>>

\* a scan that takes no vreg for pinned
pinned_alloc_never(vreg) == None

\* lines 179-183
pinned_alloc_of(vreg) ==
    IF vregs[vreg + 1].is_pinned THEN func.is_pinned_vreg[vreg] ELSE None

\* lines 176-584: one iteration of the loop over the vregs
ScanVreg ==
    /\ pc = "scan"
    /\ vreg_i < Len(vregs)
    /\ LET st == scan_ranges([im |-> inserted_moves, hm |-> half_moves,
                              bpa |-> blockparam_allocs, al |-> allocs,
                              rii |-> reuse_input_insts, srcs |-> prog_move_srcs,
                              dsts |-> prog_move_dsts, ix |-> idx, fail |-> ""],
                             vreg_i, pinned_alloc_of(vreg_i), 1, None)
       IN  /\ inserted_moves' = st.im
           /\ half_moves' = st.hm
           /\ blockparam_allocs' = st.bpa
           /\ allocs' = st.al
           /\ reuse_input_insts' = st.rii
           /\ prog_move_srcs' = st.srcs
           /\ prog_move_dsts' = st.dsts
           /\ idx' = st.ix
           /\ failure' = panic_of(st.fail)
           /\ pc' = IF st.fail # "" THEN "panic" ELSE "scan"
    /\ vreg_i' = vreg_i + 1
    /\ UNCHANGED <<inputs, multi_fixed_reg_fixups, resolve_vars, i>>

\* lines 586-593
SortHalfMoves ==
    /\ pc = "scan"
    /\ vreg_i >= Len(vregs)
    /\ half_moves' \in sort_unstable_by_key(
                           half_moves,
                           [k \in 1..Len(half_moves) |-> hm_key(half_moves[k])])
    /\ i' = 1
    /\ pc' = "half_moves"
    /\ UNCHANGED <<inputs, multi_fixed_reg_fixups, prog_move_srcs, prog_move_dsts,
                   allocs, vreg_i, idx, reuse_input_insts, blockparam_allocs,
                   resolve_vars, inserted_moves, failure>>

RECURSIVE find_source(_, _)
\* lines 596-598
find_source(hm, n) ==
    IF n <= Len(hm) /\ hm_kind(hm[n]) # Source THEN find_source(hm, n + 1) ELSE n

\* line 606: src.key | 1
dest_key(key) == <<key[1], key[2], key[3] + (1 - (key[3] % 2))>>

RECURSIVE find_last_dest(_, _, _)
\* lines 607-611
find_last_dest(hm, n, key) ==
    IF n <= Len(hm) /\ hm[n].key = key THEN find_last_dest(hm, n + 1, key) ELSE n

\* the moves of every edge at the head of its target
insertion_point_at_head(from_block, to_block) ==
    LET to_is_entry == func.entry_block = to_block
        from_is_ret == func.block_insns[from_block][2] \in func.is_ret
        from_outs == Len(func.block_succs[from_block]) + (IF from_is_ret THEN 1 ELSE 0)
        to_ins == Len(func.block_preds[to_block]) + (IF to_is_entry THEN 1 ELSE 0)
    IN  IF to_ins > 1 /\ from_outs > 1 THEN None
        ELSE Some([pos |-> Before(func.block_insns[to_block][1]), prio |-> InEdgeMoves])

\* the moves of a critical edge at the head of its target
insertion_point_no_panic(from_block, to_block) ==
    LET from_last_insn == func.block_insns[from_block][2]
        from_is_ret == from_last_insn \in func.is_ret
        to_is_entry == func.entry_block = to_block
        from_outs == Len(func.block_succs[from_block]) + (IF from_is_ret THEN 1 ELSE 0)
        to_ins == Len(func.block_preds[to_block]) + (IF to_is_entry THEN 1 ELSE 0)
    IN  IF to_ins > 1 /\ from_outs <= 1
        THEN Some([pos |-> Before(from_last_insn), prio |-> OutEdgeMoves])
        ELSE Some([pos |-> Before(func.block_insns[to_block][1]), prio |-> InEdgeMoves])

\* lines 626-669: where the moves of the edge go; None is the panic
insertion_point(from_block, to_block) ==
    LET from_last_insn == func.block_insns[from_block][2]
        to_first_insn == func.block_insns[to_block][1]
        from_is_ret == from_last_insn \in func.is_ret
        to_is_entry == func.entry_block = to_block
        from_outs == Len(func.block_succs[from_block]) + (IF from_is_ret THEN 1 ELSE 0)
        to_ins == Len(func.block_preds[to_block]) + (IF to_is_entry THEN 1 ELSE 0)
    IN  IF to_ins > 1 /\ from_outs <= 1
        THEN Some([pos |-> Before(from_last_insn), prio |-> OutEdgeMoves])
        ELSE IF to_ins <= 1
        THEN Some([pos |-> Before(to_first_insn), prio |-> InEdgeMoves])
        ELSE None

RECURSIVE edge_moves_no_dedup(_, _, _, _, _, _, _)
\* one move per destination, whatever the allocation of the one before it
edge_moves_no_dedup(st, hm, src, dest, last_dest, point, last) ==
    IF dest >= last_dest THEN st
    ELSE edge_moves_no_dedup(insert_move(st, point.pos, point.prio, src.alloc,
                                         hm[dest].alloc, Some(hm_to_vreg(hm[dest]))),
                             hm, src, dest + 1, last_dest, point, Some(hm[dest].alloc))

RECURSIVE edge_moves(_, _, _, _, _, _, _)
\* lines 671-685: the destinations hm[dest .. last_dest - 1] of src
edge_moves(st, hm, src, dest, last_dest, point, last) ==
    IF dest >= last_dest THEN st
    ELSE IF last = Some(hm[dest].alloc)
    THEN edge_moves(st, hm, src, dest + 1, last_dest, point, last)
    ELSE edge_moves(insert_move(st, point.pos, point.prio, src.alloc, hm[dest].alloc,
                                Some(hm_to_vreg(hm[dest]))),
                    hm, src, dest + 1, last_dest, point, Some(hm[dest].alloc))

\* lines 594-686: one iteration of the loop over the half-moves
ResolveHalfMove ==
    /\ pc = "half_moves"
    /\ i <= Len(half_moves)
    /\ LET s == find_source(half_moves, i)
       IN  IF s > Len(half_moves)
           THEN /\ i' = s
                /\ UNCHANGED <<inserted_moves, failure, pc>>
           ELSE LET src == half_moves[s]
                    last_dest == find_last_dest(half_moves, s + 1, dest_key(src.key))
                    point == insertion_point(hm_from_block(src), hm_to_block(src))
                IN  IF point = None
                    THEN /\ failure' = <<"Critical edge: can't insert moves between blocks",
                                         hm_from_block(src), hm_to_block(src)>>
                         /\ pc' = "panic"
                         /\ i' = s + 1
                         /\ UNCHANGED inserted_moves
                    ELSE LET st == edge_moves([im |-> inserted_moves, fail |-> ""],
                                              half_moves, src, s + 1, last_dest,
                                              point[1], None)
                         IN  /\ inserted_moves' = st.im
                             /\ failure' = panic_of(st.fail)
                             /\ pc' = IF st.fail # "" THEN "panic" ELSE "half_moves"
                             /\ i' = last_dest
    /\ UNCHANGED <<inputs, scan_vars, resolve_vars>>

RECURSIVE fixup_moves(_, _, _)
\* lines 689-710; st = [im, al, fail]
fixup_moves(st, fixups, k) ==
    IF k > Len(fixups) THEN st
    ELSE LET f == fixups[k]
             st1 == insert_move(st, f.progpoint, MultiFixedReg, f.from_preg, f.to_preg,
                                None)
         IN  fixup_moves([st1 EXCEPT !.al = set_alloc(@, inst_of(f.progpoint), f.slot,
                                                      f.to_preg)],
                         fixups, k + 1)

\* lines 688-710
MultiFixedRegFixups ==
    /\ pc = "half_moves"
    /\ i > Len(half_moves)
    /\ LET st == fixup_moves([im |-> inserted_moves, al |-> allocs, fail |-> ""],
                             multi_fixed_reg_fixups, 1)
       IN  /\ inserted_moves' = st.im
           /\ allocs' = st.al
           /\ failure' = panic_of(st.fail)
           /\ pc' = IF st.fail # "" THEN "panic" ELSE "reuse"
    /\ multi_fixed_reg_fixups' = <<>>
    /\ UNCHANGED <<inputs, prog_move_srcs, prog_move_dsts, vreg_i, idx, half_moves,
                   reuse_input_insts, blockparam_allocs, resolve_vars, i>>

RECURSIVE reuse_outputs_uncompared(_, _, _)
\* the copy made without comparing the two allocations
reuse_outputs_uncompared(st, inst, output_idx) ==
    IF output_idx >= Len(func.inst_operands[inst]) THEN st
    ELSE LET operand == func.inst_operands[inst][output_idx + 1]
         IN  IF operand.constraint.tag # "Reuse"
             THEN reuse_outputs_uncompared(st, inst, output_idx + 1)
             ELSE LET input_idx == operand.constraint.arg
                      input_alloc == get_alloc(st.al, inst, input_idx)
                      output_alloc == get_alloc(st.al, inst, output_idx)
                      input_operand == func.inst_operands[inst][input_idx + 1]
                  IN  reuse_outputs_uncompared(
                          [insert_move(st, Before(inst), ReusedInput, input_alloc,
                                       output_alloc, Some(input_operand.vreg))
                             EXCEPT !.al = set_alloc(@, inst, input_idx, output_alloc)],
                          inst, output_idx + 1)

RECURSIVE reuse_outputs(_, _, _)
\* lines 758-798: the operands of inst from output_idx on; st = [im, al, fail]
reuse_outputs(st, inst, output_idx) ==
    IF output_idx >= Len(func.inst_operands[inst]) THEN st
    ELSE LET operand == func.inst_operands[inst][output_idx + 1]
         IN  IF operand.constraint.tag # "Reuse"
             THEN reuse_outputs(st, inst, output_idx + 1)
             ELSE LET input_idx == operand.constraint.arg
                      input_alloc == get_alloc(st.al, inst, input_idx)
                      output_alloc == get_alloc(st.al, inst, output_idx)
                      input_operand == func.inst_operands[inst][input_idx + 1]
                  IN  reuse_outputs(
                          IF input_alloc # output_alloc
                          THEN [insert_move(st, Before(inst), ReusedInput, input_alloc,
                                            output_alloc, Some(input_operand.vreg))
                                  EXCEPT !.al = set_alloc(@, inst, input_idx, output_alloc)]
                          ELSE st,
                          inst, output_idx + 1)

RECURSIVE reuse_insts(_, _, _)
\* lines 756-799
reuse_insts(st, insts, k) ==
    IF k > Len(insts) THEN st
    ELSE reuse_insts(reuse_outputs(st, insts[k], 0), insts, k + 1)

\* lines 712-799
ReuseInputs ==
    /\ pc = "reuse"
    /\ LET st == reuse_insts([im |-> inserted_moves, al |-> allocs, fail |-> ""],
                             reuse_input_insts, 1)
       IN  /\ inserted_moves' = st.im
           /\ allocs' = st.al
           /\ failure' = panic_of(st.fail)
           /\ pc' = IF st.fail # "" THEN "panic" ELSE "prog_moves"
    /\ UNCHANGED <<inputs, multi_fixed_reg_fixups, prog_move_srcs, prog_move_dsts,
                   vreg_i, idx, half_moves, reuse_input_insts, blockparam_allocs,
                   resolve_vars, i>>

\* the sources ordered by vreg
src_vreg(e) == <<e.vreg>>

\* line 804: the key of a source
src_inst(e) == <<e.inst>>
\* inst.prev()
dst_inst_prev(e) == <<e.inst - 1>>

RECURSIVE prog_moves(_, _, _, _)
\* lines 810-835: the zipped pairs from the k-th on; st = [im, fail]
prog_moves(st, srcs, dsts, k) ==
    IF k > Len(srcs) \/ k > Len(dsts) \/ st.fail # "" THEN st
    ELSE LET from == srcs[k]
             to == dsts[k]
         IN  prog_moves(
                 IF is_none(from.alloc) THEN [st EXCEPT !.fail = "assert !from_alloc.is_none()"]
                 ELSE IF is_none(to.alloc) THEN [st EXCEPT !.fail = "assert !to_alloc.is_none()"]
                 ELSE IF from.inst # to.inst - 1
                 THEN [st EXCEPT !.fail = "assert_eq from_inst to_inst.prev()"]
                 ELSE insert_move(st, Before(to.inst), Regular, from.alloc, to.alloc,
                                  Some(to.vreg)),
                 srcs, dsts, k + 1)

\* lines 801-835
ProgMoves ==
    /\ pc = "prog_moves"
    /\ \E srcs \in sort_unstable_by_key(
                       prog_move_srcs,
                       [k \in 1..Len(prog_move_srcs) |-> src_inst(prog_move_srcs[k])]),
          dsts \in sort_unstable_by_key(
                       prog_move_dsts,
                       [k \in 1..Len(prog_move_dsts) |-> dst_inst_prev(prog_move_dsts[k])]) :
          LET st == IF Len(srcs) # Len(dsts)
                    THEN [im |-> inserted_moves,
                          fail |-> "assert_eq prog_move_srcs.len() prog_move_dsts.len()"]
                    ELSE prog_moves([im |-> inserted_moves, fail |-> ""], srcs, dsts, 1)
          IN  /\ inserted_moves' = st.im
              /\ failure' = panic_of(st.fail)
              /\ pc' = IF st.fail # "" THEN "panic" ELSE "resolve_sort"
    /\ prog_move_srcs' = <<>>
    /\ prog_move_dsts' = <<>>
    /\ UNCHANGED <<inputs, multi_fixed_reg_fixups, allocs, vreg_i, idx, half_moves,
                   reuse_input_insts, blockparam_allocs, resolve_vars, i>>

NextApply ==
    \/ SortRanges \/ ScanVreg \/ SortHalfMoves \/ ResolveHalfMove
    \/ MultiFixedRegFixups \/ ReuseInputs \/ ProgMoves

(***************************************************************************)
(* resolve_inserted_moves                                                  *)
(***************************************************************************)
\* lines 841-846, 896: sort the inserted moves, start with an empty eliminator.
\* inserted_moves holds the sorted list up to the order of the moves of equal
\* key; the order the unstable sort left them in is drawn when the loop reads
\* the group (ResolveGroup), which is the only place that reads it.
ResolveSort ==
    /\ pc = "resolve_sort"
    /\ inserted_moves' = sort_by_key(
                             inserted_moves,
                             [k \in 1..Len(inserted_moves) |-> pos_prio(inserted_moves[k])])
    /\ i' = 1
    /\ redundant_moves' = rm_clear
    /\ last_pos' = Before(0)
    /\ pc' = "resolve"
    /\ UNCHANGED <<inputs, scan_vars, extra_spillslot, num_spillslots, edits,
                   group, elided, mach_pre, mach, failure>>

\* the Int moves of a group, its self-moves among them
int_moves_with_self_moves(moves) ==
    SelectSeq(moves, LAMBDA m : m.from_alloc.class = "Int")

\* lines 920-942: the moves of a group by class, and its self-moves
int_moves(moves) ==
    SelectSeq(moves, LAMBDA m : m.from_alloc # m.to_alloc /\ m.from_alloc.class = "Int")
float_moves(moves) ==
    SelectSeq(moves, LAMBDA m : m.from_alloc # m.to_alloc /\ m.from_alloc.class = "Float")
self_moves(moves) ==
    SelectSeq(moves, LAMBDA m : m.from_alloc = m.to_alloc /\ m.to_vreg # None)

\* lines 898-1092: one iteration of the loop over the (pos, prio) groups
ResolveGroup ==
    /\ pc = "resolve"
    /\ i <= Len(inserted_moves)
    /\ LET pos == inserted_moves[i].pos
           prio == inserted_moves[i].prio
           j == group_end(inserted_moves, i)
           rm0 == redundant_move_process_side_effects(redundant_moves, allocs,
                                                      last_pos, pos)
           m0 == mach_side_effects(mach, allocs, last_pos, pos)
       IN  \E moves \in sort_unstable_by_key(
                             SubSeq(inserted_moves, i, j - 1),
                             [k \in 1..j - i |-> pos_prio(inserted_moves[i + k - 1])]) :
           \E ri \in resolve(to_pmoves(int_moves(moves)), scratch_by_class("Int")),
              rf \in resolve(to_pmoves(float_moves(moves)),
                             scratch_by_class("Float")) :
              LET mism == \E k \in 1..Len(moves) :
                      class_mismatch(moves[k].from_alloc, moves[k].to_alloc)
                  st0 == [rm |-> rm0, edits |-> edits, extra |-> extra_spillslot,
                          elided |-> <<>>,
                          nslots |-> num_spillslots,
                          fail |-> IF mism THEN "assert_eq class of a move" ELSE ""]
                  st1 == resolve_class(st0, "Int", ri, pos, prio)
                  st2 == resolve_class(st1, "Float", rf, pos, prio)
                  st3 == emit_self_moves(st2, self_moves(moves), 1, pos, prio)
              IN  /\ redundant_moves' = st3.rm
                  /\ edits' = st3.edits
                  /\ extra_spillslot' = st3.extra
                  /\ num_spillslots' = st3.nslots
                  /\ failure' = panic_of(st3.fail)
                  /\ pc' = IF st3.fail # "" THEN "panic" ELSE "resolve"
                  /\ group' = {moves[k] : k \in 1..Len(moves)}
                  /\ elided' = st3.elided
                  /\ mach_pre' = m0
                  /\ mach' = mach_exec(m0, st3.edits, Len(edits) + 1)
    /\ i' = group_end(inserted_moves, i)
    /\ last_pos' = inserted_moves[i].pos
    /\ UNCHANGED <<inputs, scan_vars, inserted_moves>>

RECURSIVE blockparam_edits_as_in_edge(_, _, _)
\* the DefAlloc edits with the priority of the in-edge moves
blockparam_edits_as_in_edge(st, bpa, n) ==
    IF n > Len(bpa) \/ st.fail # "" THEN st
    ELSE LET block == bpa[n].block
             params == SelectSeq(bpa, LAMBDA e : e.block = block)
             new == [k \in 1..Len(params) |->
                        DefAllocEdit(block_entry(block), InEdgeMoves,
                                     params[k].alloc, params[k].vreg)]
         IN  IF Len(params) # Len(func.block_params[block])
             THEN [st EXCEPT !.fail = "assert_eq block_params len"]
             ELSE blockparam_edits_as_in_edge(
                      [st EXCEPT !.edits = add_edits(st.edits, new, 1)],
                      bpa, n + Len(params))

RECURSIVE blockparam_edits(_, _, _)
\* lines 1100-1124: the entries of one block after the other; st = [edits, fail]
blockparam_edits(st, bpa, n) ==
    IF n > Len(bpa) \/ st.fail # "" THEN st
    ELSE LET block == bpa[n].block
             params == SelectSeq(bpa, LAMBDA e : e.block = block)
             new == [k \in 1..Len(params) |->
                        DefAllocEdit(block_entry(block), BlockParam,
                                     params[k].alloc, params[k].vreg)]
         IN  IF Len(params) # Len(func.block_params[block])
             THEN [st EXCEPT !.fail = "assert_eq block_params len"]
             ELSE blockparam_edits(
                      [st EXCEPT !.edits = add_edits(st.edits, new, 1)],
                      bpa, n + Len(params))

\* lines 1094-1124
BlockparamEdits ==
    /\ pc = "resolve"
    /\ i > Len(inserted_moves)
    /\ \E sorted \in sort_unstable_by_key(
                         blockparam_allocs,
                         [k \in 1..Len(blockparam_allocs) |->
                             block_idx(blockparam_allocs[k])]) :
          LET st == blockparam_edits([edits |-> edits, fail |-> ""], sorted, 1)
          IN  /\ blockparam_allocs' = sorted
              /\ edits' = st.edits
              /\ failure' = panic_of(st.fail)
              /\ pc' = IF st.fail # "" THEN "panic" ELSE "final_sort"
    /\ UNCHANGED <<inputs, multi_fixed_reg_fixups, prog_move_srcs, prog_move_dsts,
                   allocs, vreg_i, idx, half_moves, reuse_input_insts,
                   inserted_moves, i, last_pos, redundant_moves, extra_spillslot,
                   num_spillslots, group, elided, mach_pre, mach>>

\* lines 1126-1131
FinalSort ==
    /\ pc = "final_sort"
    /\ edits' = sort_by_key(edits, [k \in 1..Len(edits) |-> pos_prio(edits[k])])
    /\ pc' = "done"
    /\ UNCHANGED <<inputs, scan_vars, inserted_moves, i, last_pos, redundant_moves,
                   extra_spillslot, num_spillslots, group, elided, mach_pre, mach, failure>>

NextResolve == ResolveSort \/ ResolveGroup \/ BlockparamEdits \/ FinalSort

(***************************************************************************)
(* Inputs of resolve_inserted_moves alone.  The function has two blocks:   *)
(* instructions 0..3 (1 defines register 1 and clobbers float register 1,  *)
(* 3 is a safepoint) and                                                   *)
(* instructions 4..5.  The inserted moves are one or two groups of at most *)
(* MaxMoves moves in all (at most MaxParallel of them in a group over      *)
(* r1, s0 and s1), as insert_move can have built them: the moves of        *)
(* a group write pairwise different allocations, none of them the scratch  *)
(* register, and only MultiFixedReg moves (register to register) name no   *)
(* vreg.                                                                   *)
(***************************************************************************)
MaxMoves == 5
MaxParallel == 2

r1 == RegAlloc("Int", 1)
r2 == RegAlloc("Int", 2)
s0 == StackAlloc("Int", 0)
s1 == StackAlloc("Int", 1)
f1 == RegAlloc("Float", 1)
f2 == RegAlloc("Float", 2)

Constraint(tag, arg) == [tag |-> tag, arg |-> arg]
Operand(kind, pos, vreg, constraint) ==
    [kind |-> kind, pos |-> pos, vreg |-> vreg, constraint |-> constraint]

RECURSIVE preds_of(_, _, _)
\* the blocks from a on that have b among their successors
preds_of(succs, b, a) ==
    IF a > Len(succs) THEN <<>>
    ELSE (IF \E k \in 1..Len(succs[a]) : succs[a][k] = b THEN <<a - 1>> ELSE <<>>)
         \o preds_of(succs, b, a + 1)

\* a Function with its CFGInfo: blocks[b+1] = <<first, last>>, succs[b+1] the
\* successors of block b, operands[inst+1] the operands of inst
MkFunc(blocks, succs, params, operands, rets, safepoints, pinned, bpdef) ==
    LET nb == Len(blocks)
        ni == blocks[nb][2] + 1
    IN  [num_insts |-> ni, num_blocks |-> nb, entry_block |-> 0,
         block_insns |-> [b \in 0..nb - 1 |-> blocks[b + 1]],
         insn_block |-> [n \in 0..ni - 1 |->
                           CHOOSE b \in 0..nb - 1 :
                               blocks[b + 1][1] <= n /\ n <= blocks[b + 1][2]],
         block_succs |-> [b \in 0..nb - 1 |-> succs[b + 1]],
         block_preds |-> [b \in 0..nb - 1 |-> preds_of(succs, b, 1)],
         block_params |-> [b \in 0..nb - 1 |-> params[b + 1]],
         inst_operands |-> [n \in 0..ni - 1 |-> operands[n + 1]],
         inst_clobbers |-> [n \in 0..ni - 1 |-> {}],
         is_ret |-> rets, is_safepoint |-> safepoints,
         is_pinned_vreg |-> pinned, vreg_def_blockparam |-> bpdef]

ResolveFunc ==
    [MkFunc(<< <<0, 3>>, <<4, 5>> >>, << <<1>>, <<>> >>, << <<>>, <<2>> >>,
            << <<>>, <<Operand("Def", "After", 1, Constraint("Reg", 0))>>, <<>>, <<>>,
               <<>>, <<>> >>,
            {5}, {3}, [v \in 0..2 |-> None],
            [v \in 0..2 |-> IF v = 2 THEN Some([block |-> 1, idx |-> 0]) ELSE None])
     EXCEPT !.inst_clobbers = [@ EXCEPT ![1] = {f1}]]

\* the vreg an inserted move into allocation a names
vreg_in(a) == CHOOSE k \in 1..NAllocs : AllocOrder[k] = a

\* the positions and priorities of the groups: one group; two groups with
\* nothing, a definition of register 1, a safepoint or a block boundary
\* between them; two groups at one position
KeySeqs ==
    { <<>>,
      << <<Before(1), Regular>> >>,
      << <<Before(0), Regular>>, <<Before(1), Regular>> >>,
      << <<Before(1), Regular>>, <<Before(1), MultiFixedReg>> >>,
      << <<Before(1), Regular>>, <<Before(2), Regular>> >>,
      << <<Before(2), Regular>>, <<Before(3), Regular>> >>,
      << <<Before(2), Regular>>, <<Before(5), Regular>> >> }

\* the parallel moves over the allocations A: every destination written once
ParallelMovesOver(A) ==
    { M \in SUBSET (A \X A) :
        /\ M # {}
        /\ \A x \in M : x[1] # x[2]
        /\ \A x, y \in M : x[2] = y[2] => x = y }

GroupMoves ==
    {M \in ParallelMovesOver({r1, s0, s1}) : Cardinality(M) <= MaxParallel}
       \cup ParallelMovesOver({r1, r2})
       \cup { {<<r1, r2>>, <<r2, r1>>, <<s0, s1>>},
              {<<f1, f2>>}, {<<f1, f2>>, <<f2, f1>>}, {<<r1, r2>>, <<f1, f2>>},
              {<<r1, r1>>}, {<<r1, r1>>, <<s0, r2>>}, {<<s0, s0>>, <<f1, f1>>} }

group_list(key, M) ==
    LET ms == SetToSeq(M)
    IN  [k \in 1..Len(ms) |->
            InsertedMove(key[1], key[2], ms[k][1], ms[k][2],
                         IF key[2] = MultiFixedReg THEN None
                         ELSE Some(vreg_in(ms[k][2])))]

GroupsAt(key) ==
    IF key[2] = MultiFixedReg
    THEN {M \in GroupMoves : \A x \in M : is_reg(x[1]) /\ is_reg(x[2])}
    ELSE GroupMoves

RECURSIVE concat_groups(_, _, _)
concat_groups(ks, gs, k) ==
    IF k > Len(ks) THEN <<>>
    ELSE group_list(ks[k], gs[k]) \o concat_groups(ks, gs, k + 1)

RECURSIVE total_moves(_, _)
total_moves(gs, k) ==
    IF k > Len(gs) THEN 0 ELSE Cardinality(gs[k]) + total_moves(gs, k + 1)

InitResolve ==
    /\ func = ResolveFunc
    /\ vregs = <<>>
    /\ liveins = <<>>
    /\ blockparam_ins = <<>>
    /\ blockparam_outs = <<>>
    /\ ranges = <<>>
    /\ multi_fixed_reg_fixups = <<>>
    /\ prog_move_srcs = <<>>
    /\ prog_move_dsts = <<>>
    /\ allocs = [n \in 0..5 |-> IF n = 1 THEN <<r1>> ELSE <<>>]
    /\ pc = "resolve_sort"
    /\ vreg_i = 0
    /\ idx = [bp_in |-> 0, bp_out |-> 0, pm_src |-> 0, pm_dst |-> 0]
    /\ half_moves = <<>>
    /\ reuse_input_insts = <<>>
    /\ blockparam_allocs = <<[block |-> 1, idx |-> 0, vreg |-> 2, alloc |-> r2]>>
    /\ \E ks \in KeySeqs :
          \E gs \in [1..Len(ks) -> GroupMoves] :
             /\ \A k \in 1..Len(ks) : gs[k] \in GroupsAt(ks[k])
             /\ total_moves(gs, 1) <= MaxMoves
             /\ inserted_moves = concat_groups(ks, gs, 1)
    /\ i = 1
    /\ last_pos = Before(0)
    /\ redundant_moves = rm_clear
    /\ extra_spillslot = [c \in {"Int", "Float"} |-> None]
    /\ num_spillslots = FirstFreeSlot
    /\ edits = <<>>
    /\ failure = NoFailure
    /\ group = {}
    /\ elided = <<>>
    /\ mach_pre = MachInit
    /\ mach = MachInit

SpecResolve == InitResolve /\ [][NextResolve]_vars

(***************************************************************************)
(* Inputs of the whole pass.  A scenario is a function with its liveness   *)
(* and, per vreg, a plan: the spans it is live over, the points it may     *)
(* have been split at (at most MaxSplits of them), the allocations its     *)
(* bundles may have got (NoneAlloc: spilled, to the vreg's spill slot).    *)
(* No two vregs of a scenario are live at the same point in the same       *)
(* class, so every choice is an assignment the allocator can have made.    *)
(***************************************************************************)
MaxSplits == 2

Plan(spans, cuts, plan_allocs, spillslot, pinned, extra_uses, extra_defs) ==
    [spans |-> spans, cuts |-> cuts, allocs |-> plan_allocs, spillslot |-> spillslot,
     pinned |-> pinned, extra_uses |-> extra_uses, extra_defs |-> extra_defs]
Span(from, to) == [from |-> from, to |-> to]

operand_pos(inst, op) == IF op.pos = "Before" THEN Before(inst) ELSE After(inst)

RECURSIVE uses_of(_, _, _)
\* the uses of vreg v by the operands of the instructions from inst on
uses_of(f, v, inst) ==
    IF inst >= f.num_insts THEN <<>>
    ELSE LET ops == f.inst_operands[inst]
             us == [k \in 1..Len(ops) |->
                       [pos |-> operand_pos(inst, ops[k]), slot |-> k - 1,
                        operand |-> ops[k]]]
         IN  SelectSeq(us, LAMBDA u : u.operand.vreg = v) \o uses_of(f, v, inst + 1)

RECURSIVE cut(_, _, _)
cut(from, to, cuts) ==
    IF cuts = {} THEN <<Span(from, to)>>
    ELSE LET c == Min(cuts) IN <<Span(from, c)>> \o cut(c, to, cuts \ {c})

RECURSIVE cut_spans(_, _, _)
cut_spans(spans, cuts, k) ==
    IF k > Len(spans) THEN <<>>
    ELSE cut(spans[k].from, spans[k].to,
             {c \in cuts : spans[k].from < c /\ c < spans[k].to})
         \o cut_spans(spans, cuts, k + 1)

\* the live ranges vreg v can have under its plan
RangeLists(f, v, plan) ==
    LET uses == uses_of(f, v, 0) \o plan.extra_uses
        defs == {uses[k].pos : k \in {n \in 1..Len(uses) : uses[n].operand.kind = "Def"}}
                   \cup plan.extra_defs
    IN  UNION {
          LET pieces == cut_spans(plan.spans, C, 1)
          IN  {[k \in 1..Len(pieces) |->
                   [vreg |-> v, range |-> pieces[k],
                    bundle |-> [allocation |-> a[k], spillslot |-> plan.spillslot],
                    starts_at_def |-> pieces[k].from \in defs,
                    uses |-> SelectSeq(uses, LAMBDA u : contains_point(pieces[k], u.pos))]]
                 : a \in [1..Len(pieces) -> plan.allocs]}
          : C \in {C \in SUBSET plan.cuts : Cardinality(C) <= MaxSplits} }

RECURSIVE Arenas(_, _, _)
\* the arenas of live ranges of the first k vregs
Arenas(f, plans, k) ==
    IF k = 0 THEN {<<>>}
    ELSE {a \o rl : a \in Arenas(f, plans, k - 1),
                    rl \in RangeLists(f, k - 1, plans[k])}

\* vregs[v].ranges before the pass: in the order the splits left them (here
\* the last range first), each with the range the vreg had before its splits
vregs_of(arena, plans) ==
    [v1 \in 1..Len(plans) |->
        LET mine == SelectSeq([k \in 1..Len(arena) |-> k - 1],
                              LAMBDA n : arena[n + 1].vreg = v1 - 1)
            whole == Span(plans[v1].spans[1].from,
                          plans[v1].spans[Len(plans[v1].spans)].to)
        IN  [is_pinned |-> plans[v1].pinned,
             ranges |-> [k \in 1..Len(mine) |->
                            [index |-> mine[Len(mine) + 1 - k], range |-> whole]]]]

RegConstraint == Constraint("Reg", 0)
AnyConstraint == Constraint("Any", 0)
NoPinned(n) == [v \in 0..n - 1 |-> None]
NoBlockparam(n) == [v \in 0..n - 1 |-> None]
Scenario(name, f, plans, live, bp_ins, bp_outs, fixups, srcs, dsts) ==
    [name |-> name, func |-> f, plans |-> plans, liveins |-> live,
     blockparam_ins |-> bp_ins, blockparam_outs |-> bp_outs,
     multi_fixed_reg_fixups |-> fixups, prog_move_srcs |-> srcs,
     prog_move_dsts |-> dsts]

(***************************************************************************)
(* The scenarios                                                           *)
(***************************************************************************)
\* One block, instructions 0..3.  vreg 0 is defined early in 0 and used by 1
\* (a safepoint) and 3; instruction 2 leaves it alone (redef = "none"),
\* defines it again early ("early": it is dead between 1 and 2) or uses it
\* and defines it again late ("late").  vreg 1 is pinned to float register 1,
\* in two ranges.
AbutFunc(redef) ==
    MkFunc(<< <<0, 3>> >>, << <<>> >>, << <<>> >>,
           << << Operand("Def", "Before", 0, AnyConstraint),
                 Operand("Def", "After", 1, RegConstraint) >>,
              << Operand("Use", "Before", 0, AnyConstraint) >>,
              IF redef = "early" THEN << Operand("Def", "Before", 0, AnyConstraint) >>
              ELSE IF redef = "late"
              THEN << Operand("Use", "Before", 0, AnyConstraint),
                      Operand("Def", "After", 0, AnyConstraint) >>
              ELSE <<>>,
              << Operand("Use", "Before", 0, AnyConstraint),
                 Operand("Use", "Before", 1, RegConstraint) >> >>,
           {3}, {1}, [v \in 0..1 |-> IF v = 1 THEN Some(f1) ELSE None], NoBlockparam(2))

safepoint_use(v, inst) ==
    [pos |-> Before(inst), slot |-> SLOT_NONE,
     operand |-> Operand("Use", "Before", v, AnyConstraint)]

PinnedPlan ==
    Plan(<<Span(After(0), Before(2)), Span(Before(2), After(3))>>, {}, {NoneAlloc},
         NoneAlloc, TRUE, <<>>, {})

AbutScenario(redef) ==
    Scenario(redef, AbutFunc(redef),
             << Plan(IF redef = "early"
                     THEN <<Span(Before(0), After(1)), Span(Before(2), After(3))>>
                     ELSE IF redef = "late"
                     THEN <<Span(Before(0), After(2)), Span(After(2), After(3))>>
                     ELSE <<Span(Before(0), After(3))>>,
                     IF redef = "none" THEN {Before(1), Before(2), Before(3)} ELSE {},
                     {r1, r2, NoneAlloc}, s0, FALSE, <<safepoint_use(0, 1)>>, {}),
                PinnedPlan >>,
             [b \in 0..0 |-> {}], <<>>, <<>>, <<>>, <<>>, <<>>)

\* Blocks 0 -> {1, 2} -> 3 of two instructions each.  vreg 0 is defined in
\* block 0; it is either used in block 3, or passed by blocks 1 and 2 as the
\* block parameter vreg 1 of block 3.
DiamondFunc(blockparam) ==
    MkFunc(<< <<0, 1>>, <<2, 3>>, <<4, 5>>, <<6, 7>> >>,
           << <<1, 2>>, <<3>>, <<3>>, <<>> >>,
           << <<>>, <<>>, <<>>, IF blockparam THEN <<1>> ELSE <<>> >>,
           << << Operand("Def", "After", 0, AnyConstraint) >>, <<>>, <<>>, <<>>, <<>>,
              <<>>,
              << Operand("Use", "Before", IF blockparam THEN 1 ELSE 0, AnyConstraint) >>,
              <<>> >>,
           {7}, {}, NoPinned(2),
           [v \in 0..1 |-> IF blockparam /\ v = 1 THEN Some([block |-> 3, idx |-> 0])
                           ELSE None])

LiveThroughScenario ==
    Scenario("live through", DiamondFunc(FALSE),
             << Plan(<<Span(After(0), After(6))>>, {Before(2), Before(4), Before(6)},
                     {r1, r2, NoneAlloc}, s0, FALSE, <<>>, {}) >>,
             [b \in 0..3 |-> IF b = 0 THEN {} ELSE {0}], <<>>, <<>>, <<>>, <<>>, <<>>)

BlockparamScenario ==
    Scenario("blockparam", DiamondFunc(TRUE),
             << Plan(<<Span(After(0), Before(6))>>, {Before(2), Before(4)},
                     {r1, NoneAlloc}, s0, FALSE, <<>>, {}),
                Plan(<<Span(Before(6), After(6))>>, {}, {r1, r2, NoneAlloc}, s1, FALSE,
                     <<>>, {Before(6)}) >>,
             [b \in 0..3 |-> IF b \in {1, 2} THEN {0} ELSE {}],
             << [to_vreg |-> 1, to_block |-> 3, from_block |-> 1],
                [to_vreg |-> 1, to_block |-> 3, from_block |-> 2] >>,
             << [from_vreg |-> 0, from_block |-> 1, to_block |-> 3, to_vreg |-> 1],
                [from_vreg |-> 0, from_block |-> 2, to_block |-> 3, to_vreg |-> 1] >>,
             <<>>, <<>>, <<>>)

\* The diamond again.  vreg 0 is defined in block 0 and passed by blocks 1 and
\* 2 as the first parameter, vreg 1, of block 3; vreg 3, pinned to float
\* register 2, is defined in block 0, live through every block and passed as
\* the second parameter, vreg 2, which is pinned to float register 1.  vreg 1
\* is pinned to register 2 when all_pinned.
PinnedFunc(all_pinned) ==
    MkFunc(<< <<0, 1>>, <<2, 3>>, <<4, 5>>, <<6, 7>> >>,
           << <<1, 2>>, <<3>>, <<3>>, <<>> >>,
           << <<>>, <<>>, <<>>, <<1, 2>> >>,
           << << Operand("Def", "After", 0, AnyConstraint),
                 Operand("Def", "After", 3, RegConstraint) >>,
              <<>>, <<>>, <<>>, <<>>, <<>>,
              << Operand("Use", "Before", 1, AnyConstraint),
                 Operand("Use", "Before", 2, RegConstraint) >>,
              << Operand("Use", "Before", 3, RegConstraint) >> >>,
           {7}, {},
           [v \in 0..3 |-> IF v = 1 /\ all_pinned THEN Some(r2)
                           ELSE IF v = 2 THEN Some(f1)
                           ELSE IF v = 3 THEN Some(f2) ELSE None],
           [v \in 0..3 |-> IF v = 1 THEN Some([block |-> 3, idx |-> 0])
                           ELSE IF v = 2 THEN Some([block |-> 3, idx |-> 1])
                           ELSE None])

PinnedParamScenario(all_pinned) ==
    Scenario("pinned", PinnedFunc(all_pinned),
             << Plan(<<Span(After(0), Before(6))>>, {}, {r1, NoneAlloc}, s0, FALSE,
                     <<>>, {}),
                Plan(<<Span(Before(6), After(6))>>, {},
                     IF all_pinned THEN {NoneAlloc} ELSE {r1, r2, NoneAlloc},
                     IF all_pinned THEN NoneAlloc ELSE s1, all_pinned, <<>>,
                     {Before(6)}),
                Plan(<<Span(Before(6), After(6))>>, {}, {NoneAlloc}, NoneAlloc, TRUE,
                     <<>>, {Before(6)}),
                Plan(<<Span(After(0), Before(2)), Span(Before(2), Before(4)),
                       Span(Before(4), Before(6)), Span(Before(6), Before(7)),
                       Span(Before(7), After(7))>>, {}, {NoneAlloc}, NoneAlloc, TRUE,
                     <<>>, {}) >>,
             [b \in 0..3 |-> IF b \in {1, 2} THEN {0, 3} ELSE IF b = 3 THEN {3} ELSE {}],
             << [to_vreg |-> 1, to_block |-> 3, from_block |-> 1],
                [to_vreg |-> 1, to_block |-> 3, from_block |-> 2],
                [to_vreg |-> 2, to_block |-> 3, from_block |-> 1],
                [to_vreg |-> 2, to_block |-> 3, from_block |-> 2] >>,
             << [from_vreg |-> 0, from_block |-> 1, to_block |-> 3, to_vreg |-> 1],
                [from_vreg |-> 0, from_block |-> 2, to_block |-> 3, to_vreg |-> 1],
                [from_vreg |-> 3, from_block |-> 1, to_block |-> 3, to_vreg |-> 2],
                [from_vreg |-> 3, from_block |-> 2, to_block |-> 3, to_vreg |-> 2] >>,
             <<>>, <<>>, <<>>)

\* A loop: blocks 0 -> 1 -> {2, 3}, 2 -> 1.  vreg 1 is the parameter of the
\* loop header, block 1; block 0 passes it vreg 0, the loop body, block 2,
\* uses it and passes vreg 2, which it defines.
LoopFunc ==
    MkFunc(<< <<0, 1>>, <<2, 3>>, <<4, 5>>, <<6, 7>> >>,
           << <<1>>, <<2, 3>>, <<1>>, <<>> >>,
           << <<>>, <<1>>, <<>>, <<>> >>,
           << << Operand("Def", "After", 0, AnyConstraint) >>, <<>>, <<>>, <<>>,
              << Operand("Use", "Before", 1, AnyConstraint),
                 Operand("Def", "After", 2, AnyConstraint) >>,
              <<>>, <<>>, <<>> >>,
           {7}, {}, NoPinned(3),
           [v \in 0..2 |-> IF v = 1 THEN Some([block |-> 1, idx |-> 0]) ELSE None])

LoopScenario ==
    Scenario("loop", LoopFunc,
             << Plan(<<Span(After(0), Before(2))>>, {}, {r1, NoneAlloc}, s0, FALSE,
                     <<>>, {}),
                Plan(<<Span(Before(2), After(4))>>, {}, {r1, r2, NoneAlloc}, s1, FALSE,
                     <<>>, {Before(2)}),
                Plan(<<Span(After(4), Before(6))>>, {}, {r1, r2}, NoneAlloc, FALSE,
                     <<>>, {}) >>,
             [b \in 0..3 |-> IF b = 2 THEN {1} ELSE {}],
             << [to_vreg |-> 1, to_block |-> 1, from_block |-> 0],
                [to_vreg |-> 1, to_block |-> 1, from_block |-> 2] >>,
             << [from_vreg |-> 0, from_block |-> 0, to_block |-> 1, to_vreg |-> 1],
                [from_vreg |-> 2, from_block |-> 2, to_block |-> 1, to_vreg |-> 1] >>,
             <<>>, <<>>, <<>>)

\* Blocks 0 -> {1, 2}, 1 -> 2: the edge from 0 to 2 is critical.  vreg 0 is
\* defined in block 0 and used in block use_block.
CriticalFunc(use_block) ==
    MkFunc(<< <<0, 1>>, <<2, 3>>, <<4, 5>> >>, << <<1, 2>>, <<2>>, <<>> >>,
           << <<>>, <<>>, <<>> >>,
           [n \in 1..6 |->
               IF n = 1 THEN << Operand("Def", "After", 0, RegConstraint) >>
               ELSE IF n = 2 * use_block + 1
               THEN << Operand("Use", "Before", 0, AnyConstraint) >>
               ELSE <<>>],
           {5}, {}, NoPinned(1), NoBlockparam(1))

CriticalScenario(use_block) ==
    Scenario("critical edge", CriticalFunc(use_block),
             << Plan(<<Span(After(0), After(2 * use_block))>>, {Before(2), Before(4)},
                     {r1, r2}, s0, FALSE, <<>>, {}) >>,
             [b \in 0..2 |-> IF 1 <= b /\ b <= use_block THEN {0} ELSE {}],
             <<>>, <<>>, <<>>, <<>>, <<>>)

\* One block, instructions 0..5: 1 is the program move vreg 3 -> vreg 0, 2
\* has the outputs vreg 1 and vreg 5 that reuse its inputs vreg 0 and vreg 4,
\* 3 is the program move vreg 1 -> vreg 2, 4 takes vreg 2 in the fixed
\* registers 1 and 2.
ReuseFunc ==
    MkFunc(<< <<0, 5>> >>, << <<>> >>, << <<>> >>,
           << << Operand("Def", "After", 3, RegConstraint),
                 Operand("Def", "After", 4, RegConstraint) >>,
              <<>>,
              << Operand("Use", "Before", 0, RegConstraint),
                 Operand("Use", "Before", 4, RegConstraint),
                 Operand("Def", "After", 1, Constraint("Reuse", 0)),
                 Operand("Def", "After", 5, Constraint("Reuse", 1)) >>,
              <<>>,
              << Operand("Use", "Before", 2, Constraint("FixedReg", 1)),
                 Operand("Use", "Before", 2, Constraint("FixedReg", 2)) >>,
              <<>> >>,
           {5}, {}, NoPinned(6), NoBlockparam(6))

ReuseScenario ==
    Scenario("reuse", ReuseFunc,
             << Plan(<<Span(Before(2), After(2))>>, {}, {r1, r2}, s0, FALSE,
                     <<>>, {Before(2)}),
                Plan(<<Span(After(2), Before(4))>>, {}, {r1, r2}, s1, FALSE,
                     <<>>, {}),
                Plan(<<Span(Before(4), After(4))>>, {}, {r1}, NoneAlloc, FALSE,
                     <<>>, {Before(4)}),
                Plan(<<Span(After(0), Before(2))>>, {}, {r1, r2}, NoneAlloc, FALSE,
                     <<>>, {}),
                Plan(<<Span(After(0), After(2))>>, {}, {f1}, NoneAlloc, FALSE, <<>>, {}),
                Plan(<<Span(After(2), Before(3))>>, {}, {f1, f2}, NoneAlloc, FALSE,
                     <<>>, {}) >>,
             [b \in 0..0 |-> {}], <<>>, <<>>,
             << [progpoint |-> Before(4), from_preg |-> r1, to_preg |-> r2, slot |-> 1] >>,
             << [vreg |-> 1, inst |-> 3, alloc |-> NoneAlloc],
                [vreg |-> 3, inst |-> 1, alloc |-> NoneAlloc] >>,
             << [vreg |-> 0, inst |-> 2, alloc |-> NoneAlloc],
                [vreg |-> 2, inst |-> 4, alloc |-> NoneAlloc] >>)

\* One block, instructions 0..5.  Instruction 0 defines vreg 0; instructions
\* 1 and 3 are program moves from vreg 0 to vreg 1, which instructions 2 and
\* 4 use: vreg 0 is live from its definition to the second move and may be
\* split before instructions 1, 2 and 3; vreg 1 has one range from each move
\* to the use after it.
ProgMoveFunc ==
    MkFunc(<< <<0, 5>> >>, << <<>> >>, << <<>> >>,
           << << Operand("Def", "After", 0, AnyConstraint) >>,
              <<>>,
              << Operand("Use", "Before", 1, AnyConstraint) >>,
              <<>>,
              << Operand("Use", "Before", 1, AnyConstraint) >>,
              <<>> >>,
           {5}, {}, NoPinned(2), NoBlockparam(2))

ProgMoveScenario ==
    Scenario("prog moves", ProgMoveFunc,
             << Plan(<<Span(After(0), Before(4))>>, {Before(1), Before(2), Before(3)},
                     {r1, NoneAlloc}, s0, FALSE, <<>>, {}),
                Plan(<<Span(Before(2), After(2)), Span(Before(4), After(4))>>, {},
                     {r2, NoneAlloc}, s1, FALSE, <<>>, {Before(2), Before(4)}) >>,
             [b \in 0..0 |-> {}], <<>>, <<>>, <<>>,
             << [vreg |-> 0, inst |-> 1, alloc |-> NoneAlloc],
                [vreg |-> 0, inst |-> 3, alloc |-> NoneAlloc] >>,
             << [vreg |-> 1, inst |-> 2, alloc |-> NoneAlloc],
                [vreg |-> 1, inst |-> 4, alloc |-> NoneAlloc] >>)

\* The diamond with block 1 of the single instruction 2, a jump that reads
\* nothing.  vreg 0 is defined in block 0, used in block 3 and may be split
\* at the entries of blocks 1 and 3; block 0 passes it as the parameter,
\* vreg 1, of block 1.
SingleInstScenario ==
    Scenario("single instruction",
             MkFunc(<< <<0, 1>>, <<2, 2>>, <<3, 4>>, <<5, 6>> >>,
                    << <<1, 2>>, <<3>>, <<3>>, <<>> >>,
                    << <<>>, <<1>>, <<>>, <<>> >>,
                    << << Operand("Def", "After", 0, AnyConstraint) >>, <<>>, <<>>, <<>>,
                       <<>>, << Operand("Use", "Before", 0, AnyConstraint) >>, <<>> >>,
                    {6}, {}, NoPinned(2),
                    [v \in 0..1 |-> IF v = 1 THEN Some([block |-> 1, idx |-> 0])
                                    ELSE None]),
             << Plan(<<Span(After(0), After(5))>>, {Before(2), Before(5)},
                     {r1, NoneAlloc}, s0, FALSE, <<>>, {}),
                Plan(<<Span(Before(2), After(2))>>, {}, {r2, NoneAlloc}, s1, FALSE,
                     <<>>, {Before(2)}) >>,
             [b \in 0..3 |-> IF b = 0 THEN {} ELSE {0}],
             << [to_vreg |-> 1, to_block |-> 1, from_block |-> 0] >>,
             << [from_vreg |-> 0, from_block |-> 0, to_block |-> 1, to_vreg |-> 1] >>,
             <<>>, <<>>, <<>>)

Scenarios ==
    {AbutScenario("none"), AbutScenario("early"), AbutScenario("late"),
     LiveThroughScenario, BlockparamScenario,
     CriticalScenario(1), CriticalScenario(2), ReuseScenario,
     PinnedParamScenario(FALSE), PinnedParamScenario(TRUE), LoopScenario,
     ProgMoveScenario, SingleInstScenario}

\* The loop of LoopScenario under the imprecise liveness that the comment of
\* HalfMove (lines 111-124) speaks of: the parameter of the loop header,
\* vreg 1, counts as live into the header and over the whole loop body, so
\* that the back edge has a blockparam-out and a normal-out of one key.  The
\* body passes the header vreg 1 itself (self_passed) or vreg 2.
ImpreciseLoopScenario(self_passed) ==
    Scenario("imprecise loop", LoopFunc,
             << Plan(<<Span(After(0), Before(2))>>, {}, {r1, NoneAlloc}, s0, FALSE,
                     <<>>, {}),
                Plan(<<Span(Before(2), Before(6))>>, {Before(4)}, {r1, NoneAlloc}, s1,
                     FALSE, <<>>, {Before(2)}),
                Plan(<<Span(After(4), Before(6))>>, {}, {r2}, NoneAlloc, FALSE,
                     <<>>, {}) >>,
             [b \in 0..3 |-> IF b \in {1, 2} THEN {1} ELSE {}],
             << [to_vreg |-> 1, to_block |-> 1, from_block |-> 0],
                [to_vreg |-> 1, to_block |-> 1, from_block |-> 2] >>,
             IF self_passed
             THEN << [from_vreg |-> 0, from_block |-> 0, to_block |-> 1, to_vreg |-> 1],
                     [from_vreg |-> 1, from_block |-> 2, to_block |-> 1, to_vreg |-> 1] >>
             ELSE << [from_vreg |-> 0, from_block |-> 0, to_block |-> 1, to_vreg |-> 1],
                     [from_vreg |-> 2, from_block |-> 2, to_block |-> 1, to_vreg |-> 1] >>,
             <<>>, <<>>, <<>>)

InitFrom(scenarios) ==
    /\ \E sc \in scenarios :
          /\ func = sc.func
          /\ \E arena \in Arenas(sc.func, sc.plans, Len(sc.plans)) :
                /\ ranges = arena
                /\ vregs = vregs_of(arena, sc.plans)
          /\ liveins = sc.liveins
          /\ blockparam_ins = sc.blockparam_ins
          /\ blockparam_outs = sc.blockparam_outs
          /\ multi_fixed_reg_fixups = sc.multi_fixed_reg_fixups
          /\ prog_move_srcs = sc.prog_move_srcs
          /\ prog_move_dsts = sc.prog_move_dsts
          /\ allocs = [n \in 0..sc.func.num_insts - 1 |->
                          [k \in 1..Len(sc.func.inst_operands[n]) |-> NoneAlloc]]
    /\ pc = "start"
    /\ vreg_i = 0
    /\ idx = [bp_in |-> 0, bp_out |-> 0, pm_src |-> 0, pm_dst |-> 0]
    /\ half_moves = <<>>
    /\ reuse_input_insts = <<>>
    /\ blockparam_allocs = <<>>
    /\ inserted_moves = <<>>
    /\ i = 1
    /\ last_pos = Before(0)
    /\ redundant_moves = rm_clear
    /\ extra_spillslot = [c \in {"Int", "Float"} |-> None]
    /\ num_spillslots = FirstFreeSlot
    /\ edits = <<>>
    /\ failure = NoFailure
    /\ group = {}
    /\ elided = <<>>
    /\ mach_pre = MachInit
    /\ mach = MachInit

Next == NextApply \/ NextResolve

Init == InitFrom(Scenarios)

Spec == Init /\ [][Next]_vars

\* the pass on the loop with the imprecise liveness
InitImprecise == InitFrom({ImpreciseLoopScenario(TRUE), ImpreciseLoopScenario(FALSE)})

SpecImprecise == InitImprecise /\ [][Next]_vars

(***************************************************************************)
(* Claims about resolve_inserted_moves                                     *)
(***************************************************************************)
extra_slots == {extra_spillslot[c][1] : c \in {c \in {"Int", "Float"} :
                                                 extra_spillslot[c] # None}}
scratch_regs == {scratch_by_class(c) : c \in {"Int", "Float"}}
group_resolved == pc \in {"resolve", "final_sort", "done"} /\ group # {}

\* C1: once the edits of a (pos, prio) group have been emitted, running them
\* one after another leaves every destination of the group with the value its
\* source held before the first of them, and changes no other allocation
\* except the scratch registers and the extra spill slots.
C1_GroupAtomicity ==
    group_resolved =>
        /\ \A m \in group : mach[m.to_alloc] = mach_pre[m.from_alloc]
        /\ \A a \in AllAllocs \ (scratch_regs \cup extra_slots) :
              (\A m \in group : m.to_alloc # a) => mach[a] = mach_pre[a]

\* C5: when resolve_inserted_moves has returned, the edits are non-decreasing
\* in (pos, prio) and edits of equal (pos, prio) are in the order add_edit
\* pushed them.
C5_FinalOrdering ==
    pc = "done" =>
        \A a, b \in 1..Len(edits) :
            a < b =>
                /\ lex_le(<<edits[a].pos, edits[a].prio>>, <<edits[b].pos, edits[b].prio>>)
                /\ (edits[a].pos = edits[b].pos /\ edits[a].prio = edits[b].prio) =>
                       edits[a].seq < edits[b].seq

\* the sort had edits of equal key to keep in order and an edit to move
C5_Witness ==
    /\ pc = "done"
    /\ \E a, b \in 1..Len(edits) :
          a < b /\ edits[a].pos = edits[b].pos /\ edits[a].prio = edits[b].prio
    /\ \E a, b \in 1..Len(edits) : a < b /\ edits[a].seq > edits[b].seq

(***************************************************************************)
(* Claims about apply_allocations_and_insert_moves                         *)
(***************************************************************************)
applied == pc \in {"resolve_sort", "resolve", "final_sort", "done"}
edges ==
    UNION {{<<b, func.block_succs[b][k]>> : k \in 1..Len(func.block_succs[b])}
              : b \in 0..func.num_blocks - 1}
out_count(b) ==
    Len(func.block_succs[b]) + (IF func.block_insns[b][2] \in func.is_ret THEN 1 ELSE 0)
in_count(b) == Len(func.block_preds[b]) + (IF func.entry_block = b THEN 1 ELSE 0)
edge_is_critical(e) == in_count(e[2]) > 1 /\ out_count(e[1]) > 1
edge_point(e) ==
    IF in_count(e[2]) > 1 /\ out_count(e[1]) <= 1
    THEN <<Before(func.block_insns[e[1]][2]), OutEdgeMoves>>
    ELSE <<Before(func.block_insns[e[2]][1]), InEdgeMoves>>
\* the ranges (as indices into ranges) of vreg v that cover point p
ranges_at(v, p) ==
    {n \in 1..Len(ranges) : ranges[n].vreg = v /\ contains_point(ranges[n].range, p)}
effective_alloc(n) ==
    IF ranges[n].bundle.allocation # NoneAlloc THEN ranges[n].bundle.allocation
    ELSE ranges[n].bundle.spillslot
has_move_edit(pp, from, to) ==
    \E k \in 1..Len(edits) :
        /\ edits[k].kind = "Move" /\ <<edits[k].pos, edits[k].prio>> = pp
        /\ edits[k].from = from /\ edits[k].to = to
count_moves(m) == Cardinality({k \in 1..Len(inserted_moves) : inserted_moves[k] = m})
\* the edges and vregs C2 is about: v is live into S and not pinned, and the
\* range n1 covering the end of B is not the range n2 covering the entry of S
edge_transfers ==
    {t \in UNION {{<<e, v, n1, n2>> :
                      n1 \in ranges_at(v, block_exit(e[1])),
                      n2 \in ranges_at(v, block_entry(e[2]))}
                    : e \in edges, v \in 0..Len(vregs) - 1} :
        /\ t[2] \in liveins[t[1][2]]
        /\ ~vregs[t[2] + 1].is_pinned
        /\ t[3] # t[4]}

\* C2 as stated: on a CFG with no critical edge, once the edits are emitted,
\* for every edge (B, S) and every non-pinned vreg live into S whose range at
\* the end of B is not its range at the entry of S, the edits contain a move
\* from the first range's effective allocation to the second's at the edge's
\* insertion point.
C2_EdgeTransfers ==
    (pc = "done" /\ \A e \in edges : ~edge_is_critical(e)) =>
        \A t \in edge_transfers :
            has_move_edit(edge_point(t[1]), effective_alloc(t[3]), effective_alloc(t[4]))

\* C2 amended: on a CFG with no critical edge, for every such edge and vreg v
\* exactly one move from the first range's effective allocation to the
\* second's, naming v, is enqueued at the edge's insertion point; the edits
\* contain a Move between the two at that point only if the allocations
\* differ.
C2_EdgeTransfersEnqueued ==
    (applied /\ \A e \in edges : ~edge_is_critical(e)) =>
        \A t \in edge_transfers :
            LET pp == edge_point(t[1])
                from == effective_alloc(t[3])
                to == effective_alloc(t[4])
            IN  /\ count_moves(InsertedMove(pp[1], pp[2], from, to, Some(t[2]))) = 1
                /\ has_move_edit(pp, from, to) => from # to

C2_Witness ==
    /\ pc = "done"
    /\ \A e \in edges : ~edge_is_critical(e)
    /\ \E t \in edge_transfers :
          /\ effective_alloc(t[3]) = effective_alloc(t[4])
          /\ edge_point(t[1])[2] = OutEdgeMoves
    /\ \E t \in edge_transfers :
          has_move_edit(edge_point(t[1]), effective_alloc(t[3]), effective_alloc(t[4]))

\* C3: every move that half-move resolution inserts for an edge (from, to)
\* is at Before(last_inst(from)) with priority OutEdgeMoves when to_ins > 1
\* and from_outs <= 1, and at Before(first_inst(to)) with priority InEdgeMoves
\* when to_ins <= 1; no other step inserts a move of either priority.
C3_EdgePlacement ==
    [][\A k \in (Len(inserted_moves) + 1)..Len(inserted_moves') :
          LET m == inserted_moves'[k]
              s == find_source(half_moves, i)
          IN  IF pc = "half_moves" /\ s <= Len(half_moves)
              THEN LET from == hm_from_block(half_moves[s])
                       to == hm_to_block(half_moves[s])
                   IN  \/ /\ in_count(to) > 1 /\ out_count(from) <= 1
                          /\ m.pos = Before(func.block_insns[from][2])
                          /\ m.prio = OutEdgeMoves
                       \/ /\ in_count(to) <= 1
                          /\ m.pos = Before(func.block_insns[to][1])
                          /\ m.prio = InEdgeMoves
              ELSE m.prio \notin {InEdgeMoves, OutEdgeMoves}]_vars

C3_Witness ==
    /\ \E k \in 1..Len(inserted_moves) : inserted_moves[k].prio = OutEdgeMoves
    /\ \E k \in 1..Len(inserted_moves) : inserted_moves[k].prio = InEdgeMoves

CriticalEdgeMsg == "Critical edge: can't insert moves between blocks"

\* C4 as stated: a CFG with an edge (B, S) where S has more than one
\* predecessor and B more than one successor never gets an edit stream.
C4_CriticalEdgeRefusal ==
    (\E e \in edges : /\ Len(func.block_preds[e[2]]) > 1
                      /\ Len(func.block_succs[e[1]]) > 1) => pc # "done"

\* C4 amended: when half-move resolution reaches a Source half-move of an
\* edge (B, S) with to_ins > 1 and from_outs > 1, the pass stops with the
\* critical-edge diagnostic naming B and S and no edit has been produced;
\* the diagnostic is raised in no other case.
C4_CriticalEdgePanic ==
    [][LET s == find_source(half_moves, i)
           at_source == pc = "half_moves" /\ s <= Len(half_moves)
           e == <<hm_from_block(half_moves[s]), hm_to_block(half_moves[s])>>
       IN  /\ (at_source /\ edge_is_critical(e)) =>
                  /\ pc' = "panic"
                  /\ failure' = <<CriticalEdgeMsg, e[1], e[2]>>
                  /\ edits' = <<>>
           /\ (failure' # NoFailure /\ failure'[1] = CriticalEdgeMsg) =>
                  (at_source /\ edge_is_critical(e))]_vars

C4_Witness ==
    /\ pc = "panic"
    /\ failure = <<CriticalEdgeMsg, 0, 2>>
    /\ edits = <<>>

operand_slots ==
    UNION {{<<inst, k>> : k \in 1..Len(func.inst_operands[inst])}
              : inst \in 0..func.num_insts - 1}
\* the effective allocation of the range of the operand's vreg that contains
\* the operand's point, or the register the vreg is pinned to
operand_alloc(inst, k) ==
    LET op == func.inst_operands[inst][k]
    IN  IF vregs[op.vreg + 1].is_pinned THEN func.is_pinned_vreg[op.vreg][1]
        ELSE effective_alloc(CHOOSE n \in ranges_at(op.vreg, operand_pos(inst, op)) : TRUE)
reusing_outputs(inst, k) ==
    {o \in 1..Len(func.inst_operands[inst]) :
        /\ func.inst_operands[inst][o].constraint.tag = "Reuse"
        /\ func.inst_operands[inst][o].constraint.arg = k - 1}

\* C6 as stated: after apply_allocations_and_insert_moves every operand slot
\* holds the effective allocation of the range of the operand's vreg that
\* contains the operand's point.
C6_OperandFinalization ==
    applied => \A sl \in operand_slots : allocs[sl[1]][sl[2]] = operand_alloc(sl[1], sl[2])

\* C6 amended: the same, except that the slot of an input reused by an output
\* with constraint Reuse holds that output's allocation, and the slot of a
\* FixedReg operand that a multi-fixed-reg fixup rewrote holds the register
\* of its constraint.
C6_OperandFinalizationAmended ==
    applied =>
        \A sl \in operand_slots :
            LET op == func.inst_operands[sl[1]][sl[2]]
                outs == reusing_outputs(sl[1], sl[2])
            IN  allocs[sl[1]][sl[2]] =
                    IF outs # {} THEN operand_alloc(sl[1], CHOOSE o \in outs : TRUE)
                    ELSE IF op.constraint.tag = "FixedReg"
                    THEN RegAlloc(operand_alloc(sl[1], sl[2]).class, op.constraint.arg)
                    ELSE operand_alloc(sl[1], sl[2])

C6_Witness ==
    /\ applied
    /\ \E sl \in operand_slots :
          /\ reusing_outputs(sl[1], sl[2]) # {}
          /\ allocs[sl[1]][sl[2]] # operand_alloc(sl[1], sl[2])
    /\ \E sl \in operand_slots :
          /\ func.inst_operands[sl[1]][sl[2]].constraint.tag = "FixedReg"
          /\ allocs[sl[1]][sl[2]] # operand_alloc(sl[1], sl[2])

\* the pairs (R1, R2) of ranges of one non-pinned vreg with R1.to = R2.from,
\* R2.from not a block entry and R2 not flagged StartsAtDef
abut_pairs ==
    {pr \in (1..Len(ranges)) \X (1..Len(ranges)) :
        /\ ranges[pr[1]].vreg = ranges[pr[2]].vreg
        /\ ~vregs[ranges[pr[1]].vreg + 1].is_pinned
        /\ ranges[pr[1]].range.to = ranges[pr[2]].range.from
        /\ ranges[pr[2]].range.from # block_entry(insn_block(inst_of(ranges[pr[2]].range.from)))
        /\ ~ranges[pr[2]].starts_at_def}
edits_at(pp) == {k \in 1..Len(edits) : <<edits[k].pos, edits[k].prio>> = pp}

two_range_scenario(first_to) ==
    /\ func.num_blocks = 1
    /\ func.block_insns[0] = <<0, 3>>
    /\ \E n1, n2 \in 1..Len(ranges) :
          /\ {n \in 1..Len(ranges) : ranges[n].vreg = 0} = {n1, n2}
          /\ ranges[n1].range = Span(Before(0), first_to)
          /\ effective_alloc(n1) = r1
          /\ ranges[n2].range = Span(Before(2), After(3))
          /\ effective_alloc(n2) = s0
move_edits == {k \in 1..Len(edits) : edits[k].kind = "Move"}

\* C8 as stated: with the ranges [Before(0), After(1)) in r1 and [Before(2),
\* After(3)) in s0 the edits are exactly one Move r1 -> s0 at Before(2) with
\* priority Regular.
C8_AbutmentScenario ==
    (pc = "done" /\ two_range_scenario(After(1))) =>
        /\ Len(edits) = 1
        /\ edits[1].kind = "Move" /\ edits[1].from = r1 /\ edits[1].to = s0
        /\ edits[1].pos = Before(2) /\ edits[1].prio = Regular

\* C8 amended: with those ranges, which do not abut, there is no edit; with
\* the ranges [Before(0), Before(2)) in r1 and [Before(2), After(3)) in s0
\* there is exactly one Move edit, r1 -> s0 at Before(2) with priority
\* Regular, and every other edit is a DefAlloc of s0 for the vreg at the same
\* point and priority.
C8_AbutmentScenarioAmended ==
    /\ (pc = "done" /\ two_range_scenario(After(1))) => edits = <<>>
    /\ (pc = "done" /\ two_range_scenario(Before(2))) =>
          /\ Cardinality(move_edits) = 1
          /\ \A k \in 1..Len(edits) :
                /\ edits[k].pos = Before(2) /\ edits[k].prio = Regular
                /\ edits[k].to = s0
                /\ IF k \in move_edits THEN edits[k].from = r1
                   ELSE edits[k].kind = "DefAlloc" /\ edits[k].to_vreg = Some(0)

C8_Witness ==
    /\ pc = "done"
    /\ two_range_scenario(Before(2))
    /\ Len(edits) = 2

reuse_slots ==
    {sl \in operand_slots : func.inst_operands[sl[1]][sl[2]].constraint.tag = "Reuse"}

\* C9: for every output with constraint Reuse(i) of an instruction, the
\* reuse-input step enqueues exactly one move from the allocation input i had
\* to the output's allocation at Before(inst) with priority ReusedInput and
\* rewrites the input slot to the output's allocation if the two differed,
\* and enqueues no such move and leaves the slot alone if they were equal,
\* however often the instruction was recorded.
C9_ReuseInputCopies ==
    [][pc = "reuse" =>
          \A sl \in reuse_slots :
              LET inst == sl[1]
                  ix == func.inst_operands[inst][sl[2]].constraint.arg + 1
                  ia == allocs[inst][ix]
                  oa == allocs[inst][sl[2]]
                  new == {k \in (Len(inserted_moves) + 1)..Len(inserted_moves') :
                             /\ inserted_moves'[k].pos = Before(inst)
                             /\ inserted_moves'[k].prio = ReusedInput
                             /\ inserted_moves'[k].to_alloc = oa
                             /\ inserted_moves'[k].to_vreg =
                                    Some(func.inst_operands[inst][ix].vreg)}
              IN  IF ia # oa
                  THEN /\ Cardinality(new) = 1
                       /\ \A k \in new : inserted_moves'[k].from_alloc = ia
                       /\ allocs'[inst][ix] = oa
                  ELSE /\ new = {}
                       /\ allocs'[inst][ix] = ia]_vars

C9_Witness ==
    /\ pc = "prog_moves"
    /\ Len(reuse_input_insts) >= 2
    /\ reuse_input_insts[1] = reuse_input_insts[2]
    /\ \E k \in 1..Len(inserted_moves) : inserted_moves[k].prio = ReusedInput
    /\ \E sl \in reuse_slots :
          operand_alloc(sl[1], sl[2]) =
              operand_alloc(sl[1], func.inst_operands[sl[1]][sl[2]].constraint.arg + 1)

\* C10: when the program moves are reified the sources and destinations are
\* equally many, every source at instruction k has exactly one destination at
\* instruction k + 1 and both have an allocation, no assertion fails, and for
\* each such pair exactly one move from the source's allocation to the
\* destination's is enqueued at Before(k + 1) with priority Regular, and no
\* other move.
C10_ProgramMoves ==
    [][pc = "prog_moves" =>
          /\ Len(prog_move_srcs) = Len(prog_move_dsts)
          /\ pc' = "resolve_sort"
          /\ Len(inserted_moves') = Len(inserted_moves) + Len(prog_move_srcs)
          /\ \A s \in 1..Len(prog_move_srcs) :
                LET ds == {d \in 1..Len(prog_move_dsts) :
                              prog_move_dsts[d].inst = prog_move_srcs[s].inst + 1}
                IN  /\ Cardinality(ds) = 1
                    /\ \A d \in ds :
                          /\ prog_move_srcs[s].alloc # NoneAlloc
                          /\ prog_move_dsts[d].alloc # NoneAlloc
                          /\ Cardinality(
                                 {k \in (Len(inserted_moves) + 1)..Len(inserted_moves') :
                                     /\ inserted_moves'[k].pos = Before(prog_move_dsts[d].inst)
                                     /\ inserted_moves'[k].prio = Regular
                                     /\ inserted_moves'[k].from_alloc = prog_move_srcs[s].alloc
                                     /\ inserted_moves'[k].to_alloc = prog_move_dsts[d].alloc})
                                = 1]_vars

C10_Witness ==
    /\ pc = "resolve_sort"
    /\ Cardinality({k \in 1..Len(inserted_moves) :
                       inserted_moves[k].prio = Regular
                       /\ inserted_moves[k].pos \in {Before(2), Before(4)}}) = 2
    /\ func.num_insts = 6

(***************************************************************************)
(* Pinned vregs                                                            *)
(***************************************************************************)
pinned_vregs == {v \in 0..Len(vregs) - 1 :
                    vregs[v + 1].is_pinned /\ func.is_pinned_vreg[v] # None}
\* the uses of vreg v that have an operand slot
slot_uses(v) ==
    UNION {{ranges[n].uses[k] : k \in {k \in 1..Len(ranges[n].uses) :
                                         ranges[n].uses[k].slot # SLOT_NONE}}
              : n \in {n \in 1..Len(ranges) : ranges[n].vreg = v}}

\* C11: the iteration of the scan over a vreg reported pinned to a physical
\* register pushes no half-move, enqueues no move and records no blockparam
\* allocation, and leaves every operand slot of every use of the vreg set to
\* the pinned register.
C11_PinnedVregs ==
    [][(pc = "scan" /\ vreg_i \in pinned_vregs) =>
          /\ half_moves' = half_moves
          /\ inserted_moves' = inserted_moves
          /\ blockparam_allocs' = blockparam_allocs
          /\ \A u \in slot_uses(vreg_i) :
                get_alloc(allocs', inst_of(u.pos), u.slot)
                    = func.is_pinned_vreg[vreg_i][1]]_vars

\* the scan is over; among the pinned vregs it met are a block parameter
\* with a use, and a vreg that is live into a block and has two ranges
\* abutting inside a block
C11_Witness ==
    /\ pc = "half_moves"
    /\ \E v \in pinned_vregs :
          /\ func.vreg_def_blockparam[v] # None
          /\ slot_uses(v) # {}
          /\ \A u \in slot_uses(v) :
                get_alloc(allocs, inst_of(u.pos), u.slot) = func.is_pinned_vreg[v][1]
    /\ \E v \in pinned_vregs :
          /\ \E b \in 0..func.num_blocks - 1 : v \in liveins[b]
          /\ \E n1, n2 \in 1..Len(ranges) :
                /\ ranges[n1].vreg = v /\ ranges[n2].vreg = v
                /\ ranges[n1].range.to = ranges[n2].range.from
                /\ ~is_start_of_block(ranges[n2].range.from)

(***************************************************************************)
(* The redundant-move eliminator between groups                            *)
(***************************************************************************)
\* the loop is about to read the group at next, the group before was at prev
at_group == pc = "resolve" /\ i <= Len(inserted_moves)
next_pos == inserted_moves[i].pos
\* the allocations the instructions executed between prev and next write
\* through a Def or Mod operand or a clobber
written_between(prev, next) ==
    UNION {{allocs[k][n] : n \in {n \in 1..Len(func.inst_operands[k]) :
                                     func.inst_operands[k][n].kind \in {"Def", "Mod"}}}
              \cup func.inst_clobbers[k]
              : k \in {k \in 0..func.num_insts - 1 :
                          prev <= Before(k) /\ After(k) <= next}}
crosses_block(prev, next) == insn_block(inst_of(prev)) # insn_block(inst_of(next))
crosses_safepoint(prev, next) ==
    \E k \in 0..func.num_insts - 1 :
        inst_of(prev) <= k /\ k <= inst_of(next) /\ k \in func.is_safepoint

\* prev and next are such that knowledge about from or to is stale
stale(prev, next, from, to) ==
    \/ crosses_block(prev, next)
    \/ crosses_safepoint(prev, next)
    \/ from \in written_between(prev, next)
    \/ to \in written_between(prev, next)

\* C12: when the loop handles a group at next after a group at prev, what the
\* eliminator carries into the group lets it elide no move at all if prev and
\* next are in different blocks or an instruction in [prev.inst, next.inst] is
\* a safepoint, and no move from or to an allocation that an instruction
\* between prev and next writes; every such move of the group between
\* different allocations gets a Move edit into its destination.
C12_NoStaleElision ==
    [][at_group =>
          LET rm0 == redundant_move_process_side_effects(redundant_moves, allocs,
                                                         last_pos, next_pos)
          IN  /\ \A to \in AllAllocs :
                    rm0[to].copy \in AllAllocs =>
                        ~stale(last_pos, next_pos, rm0[to].copy, to)
              /\ pc' # "panic" =>
                    \A m \in group' :
                        (/\ m.from_alloc # m.to_alloc
                         /\ stale(last_pos, next_pos, m.from_alloc, m.to_alloc)) =>
                            \E k \in (Len(edits) + 1)..Len(edits') :
                                edits'[k].kind = "Move" /\ edits'[k].to = m.to_alloc
      ]_vars

\* a move was emitted at one position and, an instruction in between having
\* written its source or destination, emitted again at the next
C12_Witness ==
    /\ group_resolved
    /\ \E a, b \in 1..Len(edits) :
          /\ a < b
          /\ edits[a].kind = "Move" /\ edits[b].kind = "Move"
          /\ edits[a].from = edits[b].from /\ edits[a].to = edits[b].to
          /\ edits[a].pos < edits[b].pos /\ edits[b].pos = last_pos
          /\ ~crosses_block(edits[a].pos, last_pos)
          /\ ~crosses_safepoint(edits[a].pos, last_pos)
          /\ \/ edits[a].from \in written_between(edits[a].pos, last_pos)
             \/ edits[a].to \in written_between(edits[a].pos, last_pos)
          /\ \E m \in group : m.from_alloc = edits[b].from /\ m.to_alloc = edits[b].to

(***************************************************************************)
(* Elided moves                                                            *)
(***************************************************************************)
\* the machine when the k-th elided move of the group was met: it starts the
\* group as mach_pre and has run the edits the group emitted before the move
mach_at_elision(before, after, pre, e) ==
    mach_exec(pre, SubSeq(after, 1, e.at), Len(before) + 1)

\* C13: every resolved move src -> dst of a group that is elided finds dst
\* holding the value of src in the machine that has run all the edits emitted
\* before it.
C13_ElisionSoundness ==
    [][at_group =>
          \A k \in 1..Len(elided') :
              LET m == mach_at_elision(edits, edits', mach_pre', elided'[k])
              IN  m[elided'[k].to] = m[elided'[k].from]]_vars

\* the edits the step appends
new_edits(before, after) == SubSeq(after, Len(before) + 1, Len(after))
\* the moves m of the coming group that repeat a move m0 of the group before
\* which got its Move edit, with nothing stale between the two groups
repeated_moves(prev_group, next_group) ==
    {m \in next_group :
        /\ m.from_alloc # m.to_alloc
        /\ ~stale(last_pos, next_pos, m.from_alloc, m.to_alloc)
        /\ \E m0 \in prev_group :
              /\ m0.from_alloc = m.from_alloc /\ m0.to_alloc = m.to_alloc
              /\ has_move_edit(<<m0.pos, m0.prio>>, m0.from_alloc, m0.to_alloc)}

\* C14 as stated: a move of a group that repeats a move emitted in the group
\* before, with no def, mod or clobber of its source or destination, no
\* safepoint and no block boundary between the two groups, gets no Move edit,
\* and gets a DefAlloc edit for its destination if it names a vreg.
C14_RedundantElision ==
    [][(at_group /\ pc' # "panic") =>
          \A m \in repeated_moves(group, group') :
              LET new == new_edits(edits, edits')
              IN  /\ \A k \in 1..Len(new) :
                        ~(/\ new[k].kind = "Move"
                          /\ new[k].from = m.from_alloc /\ new[k].to = m.to_alloc)
                  /\ m.to_vreg # None =>
                        \E k \in 1..Len(new) :
                            /\ new[k].kind = "DefAlloc" /\ new[k].to = m.to_alloc
                            /\ new[k].to_vreg = m.to_vreg]_vars

\* the Move edit from -> to is among the edits, and no Move edit after it
\* writes from or to
last_write_is(from, to) ==
    \E a \in 1..Len(edits) :
        /\ edits[a].kind = "Move" /\ edits[a].from = from /\ edits[a].to = to
        /\ \A b \in (a + 1)..Len(edits) :
              edits[b].kind = "Move" => edits[b].to \notin {from, to}

\* C14 amended: the same, for a move whose source and destination no edit
\* of the group before wrote after the move's own edit.
C14_RedundantElisionUnwritten ==
    [][(at_group /\ pc' # "panic") =>
          \A m \in repeated_moves(group, group') :
              last_write_is(m.from_alloc, m.to_alloc) =>
                  LET new == new_edits(edits, edits')
                  IN  /\ \A k \in 1..Len(new) :
                            ~(/\ new[k].kind = "Move"
                              /\ new[k].from = m.from_alloc /\ new[k].to = m.to_alloc)
                      /\ m.to_vreg # None =>
                            \E k \in 1..Len(new) :
                                /\ new[k].kind = "DefAlloc" /\ new[k].to = m.to_alloc
                                /\ new[k].to_vreg = m.to_vreg]_vars

\* the second of two groups is resolved: both hold the move from -> to, the
\* first got its Move edit and wrote neither allocation afterwards, the
\* second got its DefAlloc edit only
C14_Witness ==
    /\ group_resolved
    /\ failure = NoFailure
    /\ \E m \in group :
          /\ m.from_alloc # m.to_alloc /\ m.to_vreg # None
          /\ last_write_is(m.from_alloc, m.to_alloc)
          /\ \E a \in 1..Len(edits) :
                /\ edits[a].kind = "Move" /\ edits[a].pos < m.pos
                /\ edits[a].from = m.from_alloc /\ edits[a].to = m.to_alloc
                /\ ~stale(edits[a].pos, m.pos, m.from_alloc, m.to_alloc)
          /\ ~has_move_edit(<<m.pos, m.prio>>, m.from_alloc, m.to_alloc)
          /\ \E k \in 1..Len(edits) :
                /\ edits[k].kind = "DefAlloc" /\ edits[k].pos = m.pos
                /\ edits[k].to = m.to_alloc /\ edits[k].to_vreg = m.to_vreg

(***************************************************************************)
(* Self-moves                                                              *)
(***************************************************************************)
\* C15: no Move edit has from = to without naming a vreg; and a group whose
\* inserted moves all have from_alloc = to_alloc gets no Move edit and
\* exactly one DefAlloc { to_alloc, to_vreg } edit for each of its moves that
\* names a vreg.
C15_SelfMoves ==
    [][/\ \A k \in 1..Len(edits') :
             (edits'[k].kind = "Move" /\ edits'[k].from = edits'[k].to) =>
                 edits'[k].to_vreg # None
       /\ (/\ at_group /\ pc' # "panic"
           /\ \A n \in i..(i' - 1) :
                 inserted_moves[n].from_alloc = inserted_moves[n].to_alloc) =>
              LET new == new_edits(edits, edits')
                  named == {n \in i..(i' - 1) : inserted_moves[n].to_vreg # None}
              IN  /\ \A k \in 1..Len(new) : new[k].kind = "DefAlloc"
                  /\ Len(new) = Cardinality(named)
                  /\ \A n \in named :
                        \E k \in 1..Len(new) :
                            /\ new[k].to = inserted_moves[n].to_alloc
                            /\ new[k].to_vreg = inserted_moves[n].to_vreg
                            /\ new[k].pos = inserted_moves[n].pos
                            /\ new[k].prio = inserted_moves[n].prio]_vars

\* a group of two self-moves that name a vreg has got its two DefAlloc edits
C15_Witness ==
    /\ group_resolved
    /\ Cardinality(group) = 2
    /\ \A m \in group : m.from_alloc = m.to_alloc /\ m.to_vreg # None
    /\ \A m \in group :
          \E k \in 1..Len(edits) :
              /\ edits[k].kind = "DefAlloc" /\ edits[k].to = m.to_alloc
              /\ edits[k].pos = m.pos /\ edits[k].to_vreg = m.to_vreg

(***************************************************************************)
(* The stack-to-stack cycle                                                *)
(***************************************************************************)
\* the group resolved last is { a -> b, b -> a } for two stack slots a and b
stack_swaps ==
    {ab \in AllAllocs \X AllAllocs :
        /\ is_stack(ab[1]) /\ is_stack(ab[2])
        /\ ab[1] # ab[2] /\ ab[1].class = ab[2].class
        /\ {<<m.from_alloc, m.to_alloc>> : m \in group} = {ab, <<ab[2], ab[1]>>}}
\* the Move edits of that group, as from-to pairs in the order of the edits
group_move_pairs ==
    LET ms == SelectSeq(edits, LAMBDA e : /\ e.kind = "Move" /\ e.pos = last_pos
                                          /\ \E m \in group : m.prio = e.prio)
    IN  [k \in 1..Len(ms) |-> <<ms[k].from, ms[k].to>>]

\* the six Move edits of the swap of a and b, and what they leave in a and b
six_edit_swap(a, b) ==
    LET scratch == scratch_by_class(a.class)
        extra == extra_spillslot[a.class]
    IN  /\ extra # None
        /\ \/ group_move_pairs =
                 << <<a, scratch>>, <<scratch, extra[1]>>, <<b, scratch>>,
                    <<scratch, a>>, <<extra[1], scratch>>, <<scratch, b>> >>
           \/ group_move_pairs =
                 << <<b, scratch>>, <<scratch, extra[1]>>, <<a, scratch>>,
                    <<scratch, b>>, <<extra[1], scratch>>, <<scratch, a>> >>
        /\ mach[a] = mach_pre[b]
        /\ mach[b] = mach_pre[a]

\* C17 as stated: a group { s0 -> s1, s1 -> s0 } of two stack slots of one
\* class gets exactly six Move edits: a -> scratch; scratch -> extra;
\* b -> scratch; scratch -> a; extra -> scratch; scratch -> b, where extra is
\* the extra spill slot of the class; and running them leaves each of the two
\* slots with the value the other held.
C17_StackCycle ==
    (group_resolved /\ failure = NoFailure) =>
        \A ab \in stack_swaps : six_edit_swap(ab[1], ab[2])

\* C17 amended: the same, for a group none of whose resolved moves the
\* redundant-move eliminator elides.
C17_StackCycleUnelided ==
    (group_resolved /\ failure = NoFailure /\ elided = <<>>) =>
        \A ab \in stack_swaps : six_edit_swap(ab[1], ab[2])

\* the swap of two stack slots came after another group and got six edits
C17_Witness ==
    /\ group_resolved /\ failure = NoFailure /\ elided = <<>>
    /\ stack_swaps # {}
    /\ Len(group_move_pairs) = 6
    /\ \E k \in 1..Len(edits) : edits[k].pos < last_pos

(***************************************************************************)
(* The extra spill slot                                                    *)
(***************************************************************************)
classes == {"Int", "Float"}
\* the moves of class c in a group of inserted moves, as from-to pairs
class_pairs(g, c) ==
    {<<m.from_alloc, m.to_alloc>> : m \in {m \in g : /\ m.from_alloc # m.to_alloc
                                                     /\ m.from_alloc.class = c}}
\* some of them form a cycle, so that the resolver has to use the scratch
has_cycle(g, c) ==
    \E C \in SUBSET class_pairs(g, c) :
        C # {} /\ {x[1] : x \in C} = {x[2] : x \in C}
has_stack_to_stack(g, c) ==
    \E x \in class_pairs(g, c) : is_stack(x[1]) /\ is_stack(x[2])
is_fresh_slot(a) == is_stack(a) /\ a.index >= FirstFreeSlot

\* C18: the extra spill slot of a class, once allocated, stays the same; a
\* slot is allocated for every class that has one and for nothing else; a
\* class gets its slot only in a group that has both a cycle (which makes the
\* resolver use the scratch) and a stack-to-stack move in that class; and
\* every edit that names a slot allocated during the run names the extra slot
\* of its class.
C18_ExtraSpillslot ==
    [][/\ \A c \in classes :
             extra_spillslot[c] # None => extra_spillslot'[c] = extra_spillslot[c]
       /\ num_spillslots' =
             FirstFreeSlot + Cardinality({c \in classes : extra_spillslot'[c] # None})
       /\ \A c \in classes :
             extra_spillslot'[c] # extra_spillslot[c] =>
                 at_group /\ has_cycle(group', c) /\ has_stack_to_stack(group', c)
       /\ \A k \in 1..Len(edits') :
             /\ is_fresh_slot(edits'[k].from) =>
                   extra_spillslot'[edits'[k].from.class] = Some(edits'[k].from)
             /\ is_fresh_slot(edits'[k].to) =>
                   extra_spillslot'[edits'[k].to.class] = Some(edits'[k].to)]_vars

\* two groups at different positions have used the one extra slot
C18_Witness ==
    /\ group_resolved /\ failure = NoFailure
    /\ num_spillslots = FirstFreeSlot + 1
    /\ \E a, b \in 1..Len(edits) :
          /\ edits[a].pos < edits[b].pos
          /\ is_fresh_slot(edits[a].to) /\ edits[b].to = edits[a].to

(***************************************************************************)
(* Block parameters                                                        *)
(***************************************************************************)
\* the entries of blockparam_allocs of block b, and the blocks that have any
bp_entries(b) == {n \in 1..Len(blockparam_allocs) : blockparam_allocs[n].block = b}
bp_blocks == {b \in 0..func.num_blocks - 1 : bp_entries(b) # {}}
\* the DefAlloc edits at the entry of block b with priority BlockParam
bp_edits(b) ==
    {k \in 1..Len(edits) : /\ edits[k].kind = "DefAlloc"
                           /\ edits[k].pos = block_entry(b)
                           /\ edits[k].prio = BlockParam}
\* the edits the moves of the edges into block b have got: at the head of b,
\* and at the tail of a predecessor of b
in_edge_edits(b) ==
    {j \in 1..Len(edits) : edits[j].pos = block_entry(b) /\ edits[j].prio = InEdgeMoves}
out_edge_edits(b) ==
    {j \in 1..Len(edits) :
        /\ edits[j].prio = OutEdgeMoves
        /\ \E n \in 1..Len(func.block_preds[b]) :
              edits[j].pos = Before(func.block_insns[func.block_preds[b][n]][2])}
one_edit_per_param(b) ==
    /\ Cardinality(bp_edits(b)) = Cardinality(bp_entries(b))
    /\ \A n \in bp_entries(b) :
          \E k \in bp_edits(b) :
              /\ edits[k].to = blockparam_allocs[n].alloc
              /\ edits[k].to_vreg = Some(blockparam_allocs[n].vreg)

\* C19 as stated: in the final edits every block with recorded blockparam
\* allocations has one DefAlloc { alloc, vreg } per recorded parameter at its
\* entry with priority BlockParam, and each of them comes after every edit
\* of an edge move into the block, at the head of the block or at the tail of
\* a predecessor.
C19_BlockparamEdits ==
    pc = "done" =>
        \A b \in bp_blocks :
            /\ one_edit_per_param(b)
            /\ \A k \in bp_edits(b) :
                  \A j \in in_edge_edits(b) \cup out_edge_edits(b) : j < k

\* C19 amended: the same, for the edits of the in-edge moves at the head of
\* the block and of the out-edge moves at the tail of a predecessor that
\* ends before the block begins.
C19_BlockparamEditsForward ==
    pc = "done" =>
        \A b \in bp_blocks :
            /\ one_edit_per_param(b)
            /\ \A k \in bp_edits(b) :
                  \A j \in in_edge_edits(b) \cup out_edge_edits(b) :
                      edits[j].pos <= block_entry(b) => j < k

\* the DefAlloc of a parameter follows the Move of an edge into its block
C19_Witness ==
    /\ pc = "done"
    /\ \E b \in bp_blocks :
          \E k \in bp_edits(b) :
              \E j \in out_edge_edits(b) : edits[j].kind = "Move" /\ j < k

\* C20: once the scan has recorded the blockparam allocations, every block
\* with an entry in blockparam_allocs has as many entries as it declares
\* parameters, and the length assertion of the blockparam edits never fails.
C20_BlockparamCount ==
    /\ failure # panic_of("assert_eq block_params len")
    /\ pc \notin {"start", "scan", "panic"} =>
          \A b \in bp_blocks :
              Cardinality(bp_entries(b)) = Len(func.block_params[b])

(***************************************************************************)
(* Half-moves of block parameters                                          *)
(***************************************************************************)
\* the half-moves of one key, and whether there is exactly one, carrying the
\* allocation of the range of vreg v that covers the point p
half_moves_keyed(key) == {k \in 1..Len(half_moves) : half_moves[k].key = key}
one_half_move(key, v, p) ==
    /\ Cardinality(half_moves_keyed(key)) = 1
    /\ \E n \in ranges_at(v, p) :
          \A k \in half_moves_keyed(key) : half_moves[k].alloc = effective_alloc(n)
unpinned_outs ==
    {n \in 1..Len(blockparam_outs) : pinned_alloc_of(blockparam_outs[n].from_vreg) = None}
unpinned_ins ==
    {n \in 1..Len(blockparam_ins) : pinned_alloc_of(blockparam_ins[n].to_vreg) = None}

\* C21: when the scan of all vregs is over, every entry (v, B, S, p) of
\* blockparam_outs with v not pinned has exactly one Source half-move keyed
\* (B, S, p), carrying the allocation of the range of v that covers the exit
\* of B, and every entry (p, S, B) of blockparam_ins with p not pinned has
\* exactly one Dest half-move keyed (B, S, p), carrying the allocation of the
\* range of p that covers the entry of S.
C21_BlockparamHalfMoves ==
    pc = "half_moves" =>
        /\ \A n \in unpinned_outs :
              LET e == blockparam_outs[n]
              IN  one_half_move(half_move_key(e.from_block, e.to_block, e.to_vreg, Source),
                                e.from_vreg, block_exit(e.from_block))
        /\ \A n \in unpinned_ins :
              LET e == blockparam_ins[n]
              IN  one_half_move(half_move_key(e.from_block, e.to_block, e.to_vreg, Dest),
                                e.to_vreg, block_entry(e.to_block))

\* the rolling indices have gone over entries of two source vregs and over
\* two entries of one parameter
C21_Witness ==
    /\ pc = "half_moves"
    /\ \E n, m \in unpinned_outs :
          blockparam_outs[n].from_vreg # blockparam_outs[m].from_vreg
    /\ \E n, m \in unpinned_ins :
          /\ n # m
          /\ blockparam_ins[n].to_vreg = blockparam_ins[m].to_vreg

(***************************************************************************)
(* Program moves                                                           *)
(***************************************************************************)
\* the allocation the scan gives range n: the pinned register of its vreg,
\* else the allocation of its bundle or spill set
range_alloc(n) ==
    LET pinned == pinned_alloc_of(ranges[n].vreg)
    IN  IF pinned # None THEN pinned[1] ELSE effective_alloc(n)
\* entry e holds the allocation of the range of its vreg containing p, and no
\* allocation when there is no such range
bound_at(e, p) ==
    IF ranges_at(e.vreg, p) = {} THEN e.alloc = NoneAlloc
    ELSE \A n \in ranges_at(e.vreg, p) : e.alloc = range_alloc(n)

\* C22: when the scan of all vregs is over, every entry (v, k) of
\* prog_move_srcs holds the allocation of the range of v containing After(k)
\* and every entry (v, k) of prog_move_dsts that of the range of v containing
\* Before(k); an entry no range covers holds none.
C22_ProgramMoveBinding ==
    pc = "half_moves" =>
        /\ \A k \in 1..Len(prog_move_srcs) :
              bound_at(prog_move_srcs[k], After(prog_move_srcs[k].inst))
        /\ \A k \in 1..Len(prog_move_dsts) :
              bound_at(prog_move_dsts[k], Before(prog_move_dsts[k].inst))

\* two sources of one vreg are bound by two ranges of different allocations,
\* and so are two destinations of one vreg
C22_Witness ==
    /\ pc = "half_moves"
    /\ \E j, k \in 1..Len(prog_move_srcs) :
          /\ prog_move_srcs[j].vreg = prog_move_srcs[k].vreg
          /\ prog_move_srcs[j].alloc # prog_move_srcs[k].alloc
          /\ ranges_at(prog_move_srcs[j].vreg, After(prog_move_srcs[j].inst))
                 # ranges_at(prog_move_srcs[k].vreg, After(prog_move_srcs[k].inst))
    /\ \E j, k \in 1..Len(prog_move_dsts) :
          /\ prog_move_dsts[j].vreg = prog_move_dsts[k].vreg
          /\ prog_move_dsts[j].alloc # prog_move_dsts[k].alloc

(***************************************************************************)
(* Resolution of the half-moves                                            *)
(***************************************************************************)
\* the loop over the sorted half-moves is over
half_moves_resolved == pc = "half_moves" /\ i > Len(half_moves)
\* the keys of the Sources, the Dests of the key of a Source, and the moves
\* enqueued for it: those of its to_vreg at the insertion point of its edge
source_keys ==
    {half_moves[k].key : k \in {n \in 1..Len(half_moves) : hm_kind(half_moves[n]) = Source}}
dests_of(key) == half_moves_keyed(dest_key(key))
edge_moves_of(key) ==
    {m \in 1..Len(inserted_moves) :
        /\ Some([pos |-> inserted_moves[m].pos, prio |-> inserted_moves[m].prio])
               = insertion_point(key[1], key[2])
        /\ inserted_moves[m].to_vreg = Some(key[3] \div 2)}

\* C23: once the half-moves are resolved, the number of moves enqueued for a
\* key that has a Source is the number of distinct allocations among the
\* Dests of that key.
C23_DestDeduplication ==
    half_moves_resolved =>
        \A key \in source_keys :
            Cardinality(edge_moves_of(key))
                = Cardinality({half_moves[d].alloc : d \in dests_of(key)})

\* a key has two Dests and one move
C23_Witness ==
    /\ half_moves_resolved
    /\ \E key \in source_keys :
          /\ Cardinality(dests_of(key)) = 2
          /\ Cardinality(edge_moves_of(key)) = 1

\* C24: once the half-moves are resolved, every Dest of a key that has a
\* Source has got a move from the allocation of the first Source of that key
\* in the sorted half-moves to its own allocation.
C24_FirstSource ==
    half_moves_resolved =>
        \A key \in source_keys :
            LET first == CHOOSE k \in half_moves_keyed(key) :
                             \A n \in half_moves_keyed(key) : k <= n
            IN  \A d \in dests_of(key) :
                    \E m \in edge_moves_of(key) :
                        /\ inserted_moves[m].from_alloc = half_moves[first].alloc
                        /\ inserted_moves[m].to_alloc = half_moves[d].alloc

(***************************************************************************)
(* The half-move key as the 64-bit integer of lines 136-167.  A u64 is the  *)
(* function from its bit positions, 0 the least significant, to 0 and 1;    *)
(* the scan above keeps the key as its three fields <<from_block, to_block, *)
(* 2 * to_vreg + kind>>, compared field by field.                           *)
(***************************************************************************)
KeyBits == 64
FieldBits == 21
FromBlockShift == 43
ToBlockShift == 22
ToVregShift == 1
\* `index as u64`, for an index below 2^31
u64_of(n) == [p \in 0..KeyBits - 1 |-> IF p < 31 THEN (n \div 2 ^ p) % 2 ELSE 0]
shl(x, n) == [p \in 0..KeyBits - 1 |-> IF p >= n THEN x[p - n] ELSE 0]
shr(x, n) == [p \in 0..KeyBits - 1 |-> IF p + n < KeyBits THEN x[p + n] ELSE 0]
bit_or(x, y) == [p \in 0..KeyBits - 1 |-> IF x[p] = 1 \/ y[p] = 1 THEN 1 ELSE 0]
bit_and(x, y) == [p \in 0..KeyBits - 1 |-> IF x[p] = 1 /\ y[p] = 1 THEN 1 ELSE 0]
u64_lt(x, y) ==
    \E p \in 0..KeyBits - 1 :
        x[p] < y[p] /\ \A q \in p + 1..KeyBits - 1 : x[q] = y[q]
RECURSIVE as_usize_from(_, _)
\* `as usize` of a value whose bits from position 31 on are zero
as_usize_from(x, p) == IF p >= 31 THEN 0 ELSE x[p] * 2 ^ p + as_usize_from(x, p + 1)
as_usize(x) == as_usize_from(x, 0)
\* (1 << 21) - 1
field_mask == u64_of(2 ^ FieldBits - 1)

\* the from_block field one bit lower, over the top bit of to_block
half_move_key_u64_overlapping(from_block, to_block, to_vreg, kind) ==
    bit_or(bit_or(bit_or(shl(u64_of(from_block), FromBlockShift - 1),
                         shl(u64_of(to_block), ToBlockShift)),
                  shl(u64_of(to_vreg), ToVregShift)),
           u64_of(kind))

\* lines 145-148, after the assertions of lines 142-144 (half_move_key_ok)
half_move_key_u64(from_block, to_block, to_vreg, kind) ==
    bit_or(bit_or(bit_or(shl(u64_of(from_block), FromBlockShift),
                         shl(u64_of(to_block), ToBlockShift)),
                  shl(u64_of(to_vreg), ToVregShift)),
           u64_of(kind))

\* lines 151-166
key_from_block(key) == as_usize(bit_and(shr(key, FromBlockShift), field_mask))
key_to_block(key) == as_usize(bit_and(shr(key, ToBlockShift), field_mask))
key_to_vreg(key) == as_usize(bit_and(shr(key, ToVregShift), field_mask))
key_kind(key) == IF bit_and(key, u64_of(1)) = u64_of(1) THEN Dest ELSE Source

\* The indices the keys are built of, up to the first that is too large, and
\* the number of entries of blockparam_outs and blockparam_ins together.
KeyIndices == {0, 1, FieldLimit - 1, FieldLimit}
MaxKeys == 2
KeyEntries ==
    [from_vreg : {0}, from_block : KeyIndices, to_block : KeyIndices, to_vreg : KeyIndices]

\* lines 340-348: the Source half-move of the next entry of blockparam_outs
PushSourceKey ==
    /\ pc = "key"
    /\ idx.bp_out < Len(blockparam_outs)
    /\ LET e == blockparam_outs[idx.bp_out + 1]
       IN  IF half_move_key_ok(e.from_block, e.to_block, e.to_vreg)
           THEN /\ half_moves' = Append(half_moves,
                                        HalfMove(half_move_key_u64(e.from_block, e.to_block,
                                                                   e.to_vreg, Source),
                                                 NoneAlloc))
                /\ UNCHANGED <<pc, failure>>
           ELSE /\ pc' = "panic"
                /\ failure' = panic_of("assert index < 1 << 21")
                /\ UNCHANGED half_moves
    /\ idx' = [idx EXCEPT !.bp_out = @ + 1]
    /\ UNCHANGED <<inputs, multi_fixed_reg_fixups, prog_move_srcs, prog_move_dsts, allocs,
                   vreg_i, reuse_input_insts, blockparam_allocs, resolve_vars,
                   inserted_moves, i>>

\* lines 398-406: the Dest half-move of the next entry of blockparam_ins
PushDestKey ==
    /\ pc = "key"
    /\ idx.bp_out >= Len(blockparam_outs)
    /\ idx.bp_in < Len(blockparam_ins)
    /\ LET e == blockparam_ins[idx.bp_in + 1]
       IN  IF half_move_key_ok(e.from_block, e.to_block, e.to_vreg)
           THEN /\ half_moves' = Append(half_moves,
                                        HalfMove(half_move_key_u64(e.from_block, e.to_block,
                                                                   e.to_vreg, Dest),
                                                 NoneAlloc))
                /\ UNCHANGED <<pc, failure>>
           ELSE /\ pc' = "panic"
                /\ failure' = panic_of("assert index < 1 << 21")
                /\ UNCHANGED half_moves
    /\ idx' = [idx EXCEPT !.bp_in = @ + 1]
    /\ UNCHANGED <<inputs, multi_fixed_reg_fixups, prog_move_srcs, prog_move_dsts, allocs,
                   vreg_i, reuse_input_insts, blockparam_allocs, resolve_vars,
                   inserted_moves, i>>

InitKey ==
    /\ func = ResolveFunc
    /\ vregs = <<>>
    /\ ranges = <<>>
    /\ liveins = <<>>
    /\ \E n \in 0..MaxKeys :
          /\ blockparam_outs \in [1..n -> KeyEntries]
          /\ blockparam_ins \in [1..MaxKeys - n ->
                                    [to_vreg : KeyIndices, to_block : KeyIndices,
                                     from_block : KeyIndices]]
    /\ multi_fixed_reg_fixups = <<>>
    /\ prog_move_srcs = <<>>
    /\ prog_move_dsts = <<>>
    /\ allocs = <<>>
    /\ pc = "key"
    /\ vreg_i = 0
    /\ idx = [bp_in |-> 0, bp_out |-> 0, pm_src |-> 0, pm_dst |-> 0]
    /\ half_moves = <<>>
    /\ reuse_input_insts = <<>>
    /\ blockparam_allocs = <<>>
    /\ inserted_moves = <<>>
    /\ i = 1
    /\ last_pos = Before(0)
    /\ redundant_moves = rm_clear
    /\ extra_spillslot = [c \in {"Int", "Float"} |-> None]
    /\ num_spillslots = FirstFreeSlot
    /\ edits = <<>>
    /\ failure = NoFailure
    /\ group = {}
    /\ elided = <<>>
    /\ mach_pre = MachInit
    /\ mach = MachInit

NextKey == PushSourceKey \/ PushDestKey

SpecKey == InitKey /\ [][NextKey]_vars

\* the fields and kind the n-th key is asked for, and how many were asked for
key_input(n) ==
    IF n <= Len(blockparam_outs)
    THEN <<blockparam_outs[n].from_block, blockparam_outs[n].to_block,
           blockparam_outs[n].to_vreg, Source>>
    ELSE LET e == blockparam_ins[n - Len(blockparam_outs)]
         IN  <<e.from_block, e.to_block, e.to_vreg, Dest>>
keys_asked == idx.bp_out + idx.bp_in
key_fields(key) ==
    <<key_from_block(key), key_to_block(key), key_to_vreg(key), key_kind(key)>>

\* the key of the same fields and kind as the scan above keeps it
fields_key(n) ==
    half_move_key(key_input(n)[1], key_input(n)[2], key_input(n)[3], key_input(n)[4])

\* C25: a key is produced exactly for indices below 2^21, else the assertion
\* fails; the accessors give back the fields and the kind the key was built
\* of; two keys are equal only if built of the same fields and kind, and one
\* is numerically below the other exactly if its (from_block, to_block,
\* to_vreg, kind) is lexicographically below, Source being below Dest (and
\* exactly if the key of three fields that the scan keeps is below).
C25_HalfMoveKey ==
    /\ pc = "panic" =>
          /\ failure = panic_of("assert index < 1 << 21")
          /\ Len(half_moves) = keys_asked - 1
          /\ \E k \in 1..3 : key_input(keys_asked)[k] >= FieldLimit
    /\ pc # "panic" => Len(half_moves) = keys_asked
    /\ \A n \in 1..Len(half_moves) :
          /\ \A k \in 1..3 : key_input(n)[k] < FieldLimit
          /\ key_fields(half_moves[n].key) = key_input(n)
    /\ \A j, k \in 1..Len(half_moves) :
          /\ half_moves[j].key = half_moves[k].key => key_input(j) = key_input(k)
          /\ u64_lt(half_moves[j].key, half_moves[k].key)
                 <=> lex_lt(key_input(j), key_input(k))
          /\ u64_lt(half_moves[j].key, half_moves[k].key)
                 <=> lex_lt(fields_key(j), fields_key(k))

\* the Source and the Dest key of the largest indices, in this order
C25_Witness ==
    /\ Len(half_moves) = 2
    /\ key_input(1) = <<FieldLimit - 1, FieldLimit - 1, FieldLimit - 1, Source>>
    /\ key_input(2) = <<FieldLimit - 1, FieldLimit - 1, FieldLimit - 1, Dest>>
    /\ u64_lt(half_moves[1].key, half_moves[2].key)

(***************************************************************************)
(* Blocks of a single instruction                                          *)
(***************************************************************************)
single_inst_blocks ==
    {b \in 0..func.num_blocks - 1 : func.block_insns[b][1] = func.block_insns[b][2]}
\* the order C26 gives the priorities in, and the place of a priority in it
entry_order == <<InEdgeMoves, BlockParam, Regular, MultiFixedReg, ReusedInput, OutEdgeMoves>>
entry_rank(prio) == CHOOSE n \in 1..Len(entry_order) : entry_order[n] = prio
edits_at_entry(b) ==
    {k \in 1..Len(edits) : /\ edits[k].pos = block_entry(b)
                           /\ \E n \in 1..Len(entry_order) : entry_order[n] = edits[k].prio}

\* C26: in the final edits, those at the one program point of a block of a
\* single instruction come in the order InEdgeMoves, BlockParam, Regular,
\* MultiFixedReg, ReusedInput, OutEdgeMoves, and those of priority BlockParam
\* are the DefAllocs of the block's parameters.
C26_SingleInstBlock ==
    pc = "done" =>
        \A b \in single_inst_blocks :
            /\ \A j, k \in edits_at_entry(b) :
                  j < k => entry_rank(edits[j].prio) <= entry_rank(edits[k].prio)
            /\ \A k \in edits_at_entry(b) :
                  edits[k].prio = BlockParam =>
                      /\ edits[k].kind = "DefAlloc"
                      /\ \E n \in 1..Len(func.block_params[b]) :
                            edits[k].to_vreg = Some(func.block_params[b][n])

\* a block of a single instruction with a move of an edge into it, the
\* DefAlloc of its parameter and a move of the edge out of it at its entry
C26_Witness ==
    /\ pc = "done"
    /\ \E b \in single_inst_blocks :
          \E j, k, m \in edits_at_entry(b) :
              /\ edits[j].kind = "Move" /\ edits[j].prio = InEdgeMoves
              /\ edits[k].prio = BlockParam
              /\ edits[m].kind = "Move" /\ edits[m].prio = OutEdgeMoves
              /\ j < k /\ k < m

(***************************************************************************)
(* The extra spill slot of the lowering                                    *)
(***************************************************************************)
\* the edits of the group resolved last that save a scratch register to the
\* extra spill slot of its class
scratch_saves ==
    {k \in 1..Len(edits) :
        /\ edits[k].kind = "Move" /\ edits[k].pos = last_pos
        /\ \E c \in classes : /\ edits[k].from = scratch_by_class(c)
                              /\ extra_spillslot[c] = Some(edits[k].to)}

\* C27: the assertion extra_slot.is_some() of the lowering of a stack-to-stack
\* move never fails.
C27_ExtraSlotAvailable == failure # panic_of("assert extra_slot.is_some()")

\* a group one of whose resolved moves was elided and another of which, a
\* stack-to-stack move, was lowered with the scratch register saved
C27_Witness ==
    /\ group_resolved /\ failure = NoFailure
    /\ elided # <<>>
    /\ scratch_saves # {}

====
